---- MODULE Spec2Model ----
(***************************************************************************)
(* Model of the GoTo call-automation backend: signature-verified webhook   *)
(* intake, idempotent Call creation, the background call-processing        *)
(* pipeline (process_call_recording), manual reprocessing, the simulate    *)
(* endpoint and the ActionItem status operations.                          *)
(*                                                                         *)
(* Concurrency model: one asyncio event loop (uvicorn.run in main.py).  A  *)
(* coroutine gives up control only at an await, so every action below is   *)
(* the code between two awaits of one coroutine.                           *)
(***************************************************************************)
EXTENDS Integers, Sequences, FiniteSets, TLC

VARIABLES
    calls,          \* table calls: row i has Call.id = i (autoincrement)
    summaries,      \* table call_summaries: call id -> row (call_id is unique)
    action_items,   \* table action_items: row i has ActionItem.id = i
    inflight,       \* requests whose body is being read (await request.body())
    responses,      \* HTTP responses sent so far, in the order sent
    runs,           \* background tasks: one process_call_recording run each
    now,            \* datetime.utcnow()
    disk,           \* files of the temp directory: path -> size written
    attempts,       \* download-and-transcribe attempts (transcribe_from_url)
    notifier        \* invocations of send_call_summary_notification

\* What the web endpoints and the pipeline leave alone.
io_vars == <<disk, attempts, notifier>>

\* What the transcription and notification services leave alone.
web_vars == <<calls, summaries, action_items, inflight, responses, runs, now>>

vars == <<calls, summaries, action_items, inflight, responses, runs, now,
          disk, attempts, notifier>>

----------------------------------------------------------------------------
(* Bounds of the model.                                                    *)

MaxRequests == 2        \* HTTP requests received in one behaviour
MaxInflight == 2        \* requests whose body is being read at the same time
MaxClock == 1           \* ticks of the clock in one behaviour
MaxItems == 2           \* action items in one analysis result
MaxNotifications == 2   \* invocations of the notifier in one behaviour
MaxAttempts == 1        \* download-and-transcribe attempts in one behaviour
MaxAudioSize == 2       \* settings.max_audio_size_mb, in chunks of the stream

----------------------------------------------------------------------------
(* Optional values: None is Python's None, Some(v) a value that is set.    *)

None == << >>
Some(v) == <<v>>
IsSet(o) == o # None
Val(o) == o[1]

----------------------------------------------------------------------------
(* Signature verifier.                                                     *)

Secret == "goto-webhook-secret"

\* hmac.new(secret, payload, sha256).hexdigest(): a digest that names the key
\* and the message it was computed from (no two inputs share a digest).
HexDigest(secret, payload) == <<"hex", secret, payload>>

EmptyString == <<"str", "", "">>
InvalidSignature == <<"str", "invalid_signature", "">>
NonAsciiSignature == <<"str8", "sig-with-byte-0xE9", "">>

\* hmac.compare_digest refuses a str holding non-ASCII characters.
IsAscii(s) == s[1] # "str8"

\* validate_webhook_signature: "true", "false", or "TypeError" when
\* compare_digest raises.
validate_webhook_signature(payload, signature, secret) ==
    IF signature = None \/ signature = Some(EmptyString)
    THEN "false"
    ELSE IF ~IsAscii(Val(signature))
         THEN "TypeError"
         ELSE IF Val(signature) = HexDigest(secret, payload)
              THEN "true"
              ELSE "false"

----------------------------------------------------------------------------
(* Webhook payloads.  A raw body is a byte string; Json gives what it      *)
(* decodes to.                                                             *)

GoodTime == "2025-01-15T14:25:00Z"
BadTime == "not-a-timestamp"

Ended(id, dir, start, dur, url) ==
    [json |-> TRUE, schema |-> TRUE, event_type |-> "call.ended",
     call_id |-> id, direction |-> dir, start_time |-> start,
     end_time |-> None, duration |-> dur, recording_url |-> url]

RawBodies ==
    {"ended A rec", "ended A norec", "ended A alt", "ended B rec",
     "ended A badtime", "started A", "started A badtime", "started no duration",
     "missing fields", "not json"}

Json(body) ==
    CASE body = "ended A rec" ->
            Ended("A", "inbound", GoodTime, 345, Some("https://rec/1"))
      [] body = "ended A norec" ->
            Ended("A", "inbound", GoodTime, 345, None)
      [] body = "ended A alt" ->
            Ended("A", "OUTBOUND", GoodTime, 100, Some("https://rec/2"))
      [] body = "ended B rec" ->
            Ended("B", "outbound", GoodTime, 345, Some("https://rec/1"))
      [] body = "ended A badtime" ->
            Ended("A", "inbound", BadTime, 345, Some("https://rec/1"))
      [] body = "started A" ->
            [Ended("A", "inbound", GoodTime, 0, None)
                EXCEPT !.event_type = "call.started"]
      [] body = "started A badtime" ->
            [Ended("A", "inbound", BadTime, 0, Some("https://rec/1"))
                EXCEPT !.event_type = "call.started"]
      [] body = "started no duration" ->
            [Ended("A", "inbound", GoodTime, 0, None)
                EXCEPT !.event_type = "call.started", !.schema = FALSE]
      [] body = "missing fields" ->
            [Ended("", "", "", 0, None) EXCEPT !.schema = FALSE]
      [] OTHER ->
            [Ended("", "", "", 0, None) EXCEPT !.json = FALSE, !.schema = FALSE]

\* GoToWebhook.parse_raw: raises unless the body is JSON matching the schema.
parse_raw_ok(body) == Json(body).json /\ Json(body).schema

\* datetime.fromisoformat(s.replace("Z", "+00:00")): the datetime as a number
\* of clock ticks, None for ValueError.
fromisoformat(s) == IF s = GoodTime THEN Some(0) ELSE None

\* str.lower()
lower(s) == IF s = "OUTBOUND" THEN "outbound" ELSE s

----------------------------------------------------------------------------
(* Tables and repositories.                                                *)

CallIds == 1..Len(calls)

\* A lookup that filters on the wrong column and so never matches.
get_by_goto_id_NoMatch(table, goto_call_id) == {}

\* CallRepository.get_by_goto_id: the ids of the rows with that external id.
get_by_goto_id(table, goto_call_id) ==
    {i \in 1..Len(table) : table[i].goto_call_id = goto_call_id}

\* A calls table without the unique constraint.
UniqueViolation_Off(table, goto_call_id) == FALSE

\* Column goto_call_id is unique: an insert of a second row with the same
\* external id fails with IntegrityError.
UniqueViolation(table, goto_call_id) ==
    \E i \in 1..Len(table) : table[i].goto_call_id = goto_call_id

\* CallRepository.get_by_id
get_by_id(table, call_id) == call_id \in 1..Len(table)

\* SummaryRepository.get_by_call_id
get_by_call_id(table, call_id) == call_id \in DOMAIN table

\* A row stored without the external id of the payload.
CallRow_NoExternalId(data, t) ==
    [goto_call_id |-> "",
     direction |-> IF data.direction = "outbound" THEN "outbound" ELSE "inbound",
     start_time |-> Some(0), end_time |-> None,
     duration_seconds |-> data.duration,
     recording_url |-> data.recording_url,
     webhook_received_at |-> Some(t)]

\* The row a webhook payload is stored as.
CallRow(data, t) ==
    [goto_call_id |-> data.call_id,
     direction |-> IF lower(data.direction) = "outbound" THEN "outbound" ELSE "inbound",
     start_time |-> fromisoformat(data.start_time),
     end_time |-> IF IsSet(data.end_time) THEN fromisoformat(Val(data.end_time)) ELSE None,
     duration_seconds |-> data.duration,
     recording_url |-> data.recording_url,
     webhook_received_at |-> Some(t)]

\* A CallSummary row with every nullable column null.
EmptySummary ==
    [id |-> None, transcript |-> None, summary |-> None, sentiment |-> None,
     urgency_score |-> None, key_topics |-> None,
     transcription_started_at |-> None, transcription_completed_at |-> None,
     analysis_started_at |-> None, analysis_completed_at |-> None]

\* The autoincrement id of the next call_summaries row (rows are never deleted).
NextSummaryId(table) == Cardinality(DOMAIN table) + 1

\* A manual run that resumes after the stages an earlier run completed.
NewRun_Resuming(call_id, url, origin) ==
    [call_id |-> call_id, recording_url |-> url, origin |-> origin,
     pc |-> IF origin = "manual" THEN "analyzing" ELSE "scheduled",
     failed_stage |-> "",
     transcript |-> None, analysis |-> None,
     action_items |-> << >>, notified |-> 0,
     attempted |-> [download |-> 0, transcription |-> 0, analysis |-> 0]]

\* A scheduled background task: process_call_recording(call_id, recording_url, db).
NewRun(call_id, url, origin) ==
    [call_id |-> call_id, recording_url |-> url, origin |-> origin,
     pc |-> "scheduled", failed_stage |-> "",
     transcript |-> None, analysis |-> None,
     action_items |-> << >>, notified |-> 0,
     attempted |-> [download |-> 0, transcription |-> 0, analysis |-> 0]]

----------------------------------------------------------------------------
(* The webhook endpoint, POST /webhooks/goto/call-ended.                   *)

\* Signature headers a sender may supply with a body.
BadSignatures(body) ==
    {None, Some(EmptyString), Some(InvalidSignature), Some(NonAsciiSignature),
     Some(HexDigest("other-secret", body)), Some(HexDigest(Secret, "ended B rec"))}

\* The requests sent to the endpoint: every body validly signed, and two
\* bodies (one well-formed, one that does not parse) with every bad signature.
Requests ==
    {[body |-> b, signature |-> Some(HexDigest(Secret, b))] : b \in RawBodies}
    \cup {[body |-> b, signature |-> s] :
              b \in {"ended A rec", "not json"}, s \in BadSignatures("ended A rec")}

Response(code, status, call_id, req) ==
    [endpoint |-> "call-ended", status_code |-> code, status |-> status,
     call_id |-> call_id, body |-> req.body, signature |-> req.signature,
     arrived |-> req.arrived]

\* A request arrives: the handler starts and awaits request.body().
Receive(requests) ==
    /\ Len(responses) + Len(inflight) < MaxRequests
    /\ Len(inflight) < MaxInflight
    /\ \E req \in requests :
          inflight' = Append(inflight,
                             [body |-> req.body, signature |-> req.signature,
                              arrived |-> Len(responses)])
    /\ UNCHANGED <<calls, summaries, action_items, responses, runs, now>>
    /\ UNCHANGED io_vars

RemoveAt(seq, i) == SubSeq(seq, 1, i - 1) \o SubSeq(seq, i + 1, Len(seq))

\* A handler that processes every event type.
Handled_Any(event_type) == TRUE

\* Line 268: the one event type that is processed.
Handled(event_type) == event_type = "call.ended"

\* A handler that schedules a run for every delivery that names a recording.
WebhookOutcome_SchedulesDuplicates(req, table, tasks, t) ==
    LET data == Json(req.body)
        found == get_by_goto_id(table, data.call_id)
        url == IF IsSet(data.recording_url) THEN Val(data.recording_url)
               ELSE "https://rec/1"
    IN  IF found # {}
        THEN [response |-> Response(200, "duplicate", Some(data.call_id), req),
              calls |-> table,
              runs |-> Append(tasks, NewRun(CHOOSE i \in found : TRUE, url, "webhook"))]
        ELSE [response |-> Response(200, "accepted", Some(data.call_id), req),
              calls |-> Append(table, CallRow(data, t)),
              runs |-> Append(tasks, NewRun(Len(table) + 1, url, "webhook"))]

\* A handler that overwrites the stored row on a repeated delivery.
WebhookOutcome_Upsert(req, table, tasks, t) ==
    LET data == Json(req.body)
        found == get_by_goto_id(table, data.call_id)
    IN  IF found # {}
        THEN [response |-> Response(200, "duplicate", Some(data.call_id), req),
              calls |-> [i \in DOMAIN table |->
                            IF i \in found THEN CallRow(data, t) ELSE table[i]],
              runs |-> tasks]
        ELSE [response |-> Response(200, "accepted", Some(data.call_id), req),
              calls |-> Append(table, CallRow(data, t)),
              runs |-> tasks]

\* A handler whose answer reports whether a pipeline run has failed.
WebhookOutcome_SeesRuns(req, table, tasks, t) ==
    [response |-> Response(IF \E r \in DOMAIN tasks : tasks[r].pc = "failed"
                           THEN 500 ELSE 200,
                           "accepted", None, req),
     calls |-> table, runs |-> tasks]

\* What handle_call_ended_webhook does with request req once its body is read:
\* the response, the calls table and the background tasks afterwards.
WebhookOutcome(req, table, tasks, t) ==
    LET verdict == validate_webhook_signature(req.body, req.signature, Secret)
        data == Json(req.body)
        same(code, status, id) ==
            [response |-> Response(code, status, id, req), calls |-> table, runs |-> tasks]
    IN  IF verdict = "TypeError" THEN same(500, "", None)
        ELSE IF verdict = "false" THEN same(401, "", None)
        ELSE IF ~parse_raw_ok(req.body) THEN same(400, "", None)
        ELSE IF ~Handled(data.event_type) THEN same(200, "ignored", None)
        ELSE IF get_by_goto_id(table, data.call_id) # {}
             THEN same(200, "duplicate", Some(data.call_id))
        ELSE IF fromisoformat(data.start_time) = None
                \/ (IsSet(data.end_time) /\ fromisoformat(Val(data.end_time)) = None)
             THEN same(400, "", None)
        ELSE IF UniqueViolation(table, data.call_id) THEN same(500, "", None)
        ELSE [response |-> Response(200, "accepted", Some(data.call_id), req),
              calls |-> Append(table, CallRow(data, t)),
              runs |-> IF IsSet(data.recording_url)
                       THEN Append(tasks, NewRun(Len(table) + 1,
                                                 Val(data.recording_url), "webhook"))
                       ELSE tasks]

\* The handler runs from the end of await request.body() to its return.
handle_call_ended_webhook ==
    \E i \in 1..Len(inflight) :
        LET out == WebhookOutcome(inflight[i], calls, runs, now)
        IN  /\ inflight' = RemoveAt(inflight, i)
            /\ responses' = Append(responses, out.response)
            /\ calls' = out.calls
            /\ runs' = out.runs
            /\ UNCHANGED <<summaries, action_items, now>>
            /\ UNCHANGED io_vars

----------------------------------------------------------------------------
(* Manual reprocessing, POST /webhooks/goto/manual-process/{call_id}.      *)

ManualResponse(code, status, call_id, requested) ==
    [endpoint |-> "manual-process", status_code |-> code, status |-> status,
     call_id |-> call_id, body |-> "", signature |-> None,
     arrived |-> Len(responses), requested |-> requested]

\* An endpoint that schedules a run for whatever id it is given.
ManualOutcome_AlwaysSchedules(call_id, table, tasks) ==
    [response |-> ManualResponse(200, "processing", None, call_id),
     runs |-> Append(tasks, NewRun(call_id, "https://rec/1", "manual"))]

\* What manual_process_call(call_id) answers and schedules.
ManualOutcome(call_id, table, tasks) ==
    IF ~get_by_id(table, call_id)
    THEN [response |-> ManualResponse(404, "", None, call_id), runs |-> tasks]
    ELSE IF table[call_id].recording_url = None
    THEN [response |-> ManualResponse(400, "", None, call_id), runs |-> tasks]
    ELSE [response |-> ManualResponse(200, "processing",
                                      Some(table[call_id].goto_call_id), call_id),
          runs |-> Append(tasks, NewRun(call_id, Val(table[call_id].recording_url),
                                        "manual"))]

manual_process_call ==
    /\ Len(responses) + Len(inflight) < MaxRequests
    /\ \E call_id \in 1..(Len(calls) + 1) :
          LET out == ManualOutcome(call_id, calls, runs)
          IN  /\ responses' = Append(responses, out.response)
              /\ runs' = out.runs
    /\ UNCHANGED <<calls, summaries, action_items, inflight, now>>
    /\ UNCHANGED io_vars

----------------------------------------------------------------------------
(* External services as the pipeline sees them.                            *)

\* What transcribe_from_url may return as result["text"].
Transcripts == {"Hi, I need help with my invoice."}

\* The k-th action item of a structured result, as the backend words it.
ExtractedItem(k) ==
    IF k = 1
    THEN [description |-> "Call the customer back", assigned_to |-> Some("Sam"),
          priority |-> Some(5)]
    ELSE [description |-> "Send the quote", assigned_to |-> None, priority |-> None]

AnalysisData(n, sentiment, urgency) ==
    [summary |-> "Customer asked about an invoice.",
     key_topics |-> <<"billing", "invoice">>,
     action_items |-> [k \in 1..n |-> ExtractedItem(k)],
     sentiment |-> sentiment, urgency_score |-> urgency]

\* Responses of the chat-completions backend: function_call.arguments decoded.
BackendResponses ==
    {[function_call |-> TRUE, data |-> AnalysisData(0, "positive", 1)],
     [function_call |-> TRUE, data |-> AnalysisData(MaxItems, "neutral", 3)],
     [function_call |-> TRUE, data |-> AnalysisData(1, "neutral", 6)],
     [function_call |-> TRUE, data |-> AnalysisData(0, "neutral", 0)],
     [function_call |-> TRUE, data |-> AnalysisData(0, "angry", 3)],
     [function_call |-> FALSE, data |-> AnalysisData(0, "neutral", 3)]}

SentimentType == {"positive", "neutral", "negative"}

\* Field(ge=1, le=5)
InRange(n) == n >= 1 /\ n <= 5

\* A schema whose priority defaults to 1.
ParsedItem_DefaultOne(item) ==
    [description |-> item.description, assigned_to |-> item.assigned_to,
     priority |-> IF IsSet(item.priority) THEN Val(item.priority) ELSE 1]

\* ActionItem(**item): priority defaults to 3.
ParsedItem(item) ==
    [description |-> item.description, assigned_to |-> item.assigned_to,
     priority |-> IF IsSet(item.priority) THEN Val(item.priority) ELSE 3]

\* A schema that accepts every structured result.
CallAnalysisValid_Any(data) == TRUE

\* CallAnalysis(**data) validates.
CallAnalysisValid(data) ==
    /\ data.sentiment \in SentimentType
    /\ InRange(data.urgency_score)
    /\ \A k \in DOMAIN data.action_items :
          InRange(ParsedItem(data.action_items[k]).priority)

\* analyze_call: Some(analysis), or None when it raises.
analyze_call(response) ==
    IF ~response.function_call THEN None
    ELSE IF ~CallAnalysisValid(response.data) THEN None
    ELSE Some([response.data EXCEPT
                 !.action_items = [k \in DOMAIN response.data.action_items |->
                                      ParsedItem(response.data.action_items[k])]])

----------------------------------------------------------------------------
(* The pipeline, process_call_recording.                                   *)

\* A handler that commits the pending changes instead of dropping them.
Rollback_KeepsPending(committed, uncommitted) == uncommitted

\* The except block: db_session.rollback() drops what the session had not
\* committed, and the commit after it writes nothing.
Rollback(committed, uncommitted) == committed

\* A handler after which the run goes on to its notification.
Failed_StillNotifies(run, stage) ==
    [run EXCEPT !.pc = "notifying", !.failed_stage = stage]

\* A handler that schedules the run again after a failure.
Failed_Retrying(run, stage) == [run EXCEPT !.pc = "scheduled"]

\* Lines 214-223: the handler of the outer try.  When the failure came before
\* `summary` was bound (the call lookup), `if summary:` raises NameError
\* inside the handler, which the bare `except: pass` swallows; the coroutine
\* returns either way.
Failed(run, stage) ==
    LET name_error == stage = "call lookup"
        swallowed == TRUE
    IN  [run EXCEPT !.pc = IF name_error /\ ~swallowed THEN "raised" ELSE "failed",
                    !.failed_stage = stage]

\* A run that inserts a fresh summary row whether or not the call has one.
SummaryAtStart_Recreate(table, call_id, t) ==
    [c \in DOMAIN table \cup {call_id} |->
        IF c = call_id
        THEN [EmptySummary EXCEPT !.id = Some(NextSummaryId(table)),
                                  !.transcription_started_at = Some(t)]
        ELSE table[c]]

\* Lines 125-153: look the call up, get or create its summary, record
\* transcription_started_at, then await transcribe_from_url.
SummaryAtStart(table, call_id, t) ==
    IF get_by_call_id(table, call_id)
    THEN [table EXCEPT ![call_id].transcription_started_at = Some(t)]
    ELSE table @@ (call_id :> [EmptySummary EXCEPT
                                  !.id = Some(NextSummaryId(table)),
                                  !.transcription_started_at = Some(t)])

StartRun(r) ==
    /\ r \in DOMAIN runs
    /\ runs[r].pc = "scheduled"
    /\ LET c == runs[r].call_id
       IN  IF ~get_by_id(calls, c)
           THEN /\ runs' = [runs EXCEPT ![r].pc = "call not found"]
                /\ UNCHANGED summaries
           ELSE \E db \in {"ok", "call lookup", "summary write"} :
                  IF db = "ok"
                  THEN /\ summaries' = SummaryAtStart(summaries, c, now)
                       /\ runs' = [runs EXCEPT ![r].pc = "transcribing",
                                               ![r].attempted.download = @ + 1]
                  ELSE IF db = "call lookup"
                  THEN /\ summaries' = summaries
                       /\ runs' = [runs EXCEPT ![r] = Failed(@, db)]
                  ELSE /\ summaries' = Rollback(summaries,
                                                SummaryAtStart(summaries, c, now))
                       /\ runs' = [runs EXCEPT ![r] = Failed(@, db)]
    /\ UNCHANGED <<calls, action_items, inflight, responses, now>>
    /\ UNCHANGED io_vars

\* A commit of the transcript that leaves analysis_started_at for later.
SummaryWithTranscript_NoAnalysisStart(table, call_id, text, t) ==
    [table EXCEPT ![call_id].transcript = Some(text),
                  ![call_id].transcription_completed_at = Some(t)]

\* A commit that writes the transcript to every summary row.
SummaryWithTranscript_AllRows(table, call_id, text, t) ==
    [c \in DOMAIN table |->
        [table[c] EXCEPT !.transcript = Some(text),
                         !.transcription_completed_at = Some(t),
                         !.analysis_started_at = Some(t)]]

\* The commit of lines 158-162 without the assignment of line 159.
SummaryWithTranscript_NoText(table, call_id, text, t) ==
    [table EXCEPT ![call_id].transcription_completed_at = Some(t),
                  ![call_id].analysis_started_at = Some(t)]

\* Lines 158-162: transcript, transcription_completed_at and
\* analysis_started_at in one commit.
SummaryWithTranscript(table, call_id, text, t) ==
    [table EXCEPT ![call_id].transcript = Some(text),
                  ![call_id].transcription_completed_at = Some(t),
                  ![call_id].analysis_started_at = Some(t)]

\* transcribe_from_url returns or raises; on a result, lines 155-176 up to
\* await analyze_call.
TranscriptionDone(r) ==
    /\ r \in DOMAIN runs
    /\ runs[r].pc = "transcribing"
    /\ LET c == runs[r].call_id
           requested == [runs[r] EXCEPT !.attempted.transcription = @ + 1]
       IN  \/ /\ summaries' = Rollback(summaries, summaries)
              /\ runs' = [runs EXCEPT ![r] = Failed(@, "download")]
           \/ /\ summaries' = Rollback(summaries, summaries)
              /\ runs' = [runs EXCEPT ![r] = Failed(requested, "transcription")]
           \/ \E text \in Transcripts : \E commit_ok \in BOOLEAN :
                LET written == SummaryWithTranscript(summaries, c, text, now)
                IN  IF commit_ok
                    THEN /\ summaries' = written
                         /\ runs' = [runs EXCEPT ![r] =
                                [requested EXCEPT !.pc = "analyzing",
                                                  !.transcript = Some(text),
                                                  !.attempted.analysis = @ + 1]]
                    ELSE /\ summaries' = Rollback(summaries, written)
                         /\ runs' = [runs EXCEPT
                                ![r] = Failed(requested, "transcript write")]
    /\ UNCHANGED <<calls, action_items, inflight, responses, now>>
    /\ UNCHANGED io_vars

\* sep.join(topics): the pieces of the joined string, one per topic and one
\* per separator.
Join(sep, topics) ==
    [i \in 1..(IF Len(topics) = 0 THEN 0 ELSE 2 * Len(topics) - 1) |->
        IF i % 2 = 1 THEN topics[(i + 1) \div 2] ELSE sep]

\* The commit of lines 178-184 without the assignment of line 183.
SummaryWithAnalysis_NoTimestamp(table, call_id, analysis, t) ==
    [table EXCEPT ![call_id].summary = Some(analysis.summary),
                  ![call_id].sentiment = Some(analysis.sentiment),
                  ![call_id].urgency_score = Some(analysis.urgency_score),
                  ![call_id].key_topics = Some(Join(",", analysis.key_topics))]

\* Lines 178-184: the analysis fields and analysis_completed_at in one commit.
SummaryWithAnalysis(table, call_id, analysis, t) ==
    [table EXCEPT ![call_id].summary = Some(analysis.summary),
                  ![call_id].sentiment = Some(analysis.sentiment),
                  ![call_id].urgency_score = Some(analysis.urgency_score),
                  ![call_id].key_topics = Some(Join(",", analysis.key_topics)),
                  ![call_id].analysis_completed_at = Some(t)]

\* ActionItemRepository.create(call_id, description, assigned_to, priority):
\* the row inserted; status takes the column default.
NewActionItem(call_id, item) ==
    [call_id |-> call_id, description |-> item.description,
     assigned_to |-> item.assigned_to, due_date |-> None,
     status |-> "pending", priority |-> Some(item.priority),
     completed_at |-> None]

\* A loop that skips an item the call already has a row for.
CreateItems_Dedup(table, call_id, items, n) ==
    table \o SelectSeq([k \in 1..n |->
                           [call_id |-> call_id, description |-> items[k].description,
                            assigned_to |-> items[k].assigned_to, due_date |-> None,
                            status |-> "pending", priority |-> Some(items[k].priority),
                            completed_at |-> None]],
                       LAMBDA row : \A i \in DOMAIN table :
                                       \/ table[i].call_id # call_id
                                       \/ table[i].description # row.description)

\* A loop whose rows are committed together after the last item: when it
\* stops before the last item nothing of it is in the table.
CreateItems_Atomic(table, call_id, items, n) ==
    IF n < Len(items)
    THEN table
    ELSE table \o [k \in 1..n |->
                      [call_id |-> call_id, description |-> items[k].description,
                       assigned_to |-> items[k].assigned_to, due_date |-> None,
                       status |-> "pending", priority |-> Some(items[k].priority),
                       completed_at |-> None]]

\* A loop that stops one item short.
CreateItems_DropLast(table, call_id, items, n) ==
    table \o [k \in 1..(n - 1) |->
                 [call_id |-> call_id, description |-> items[k].description,
                  assigned_to |-> items[k].assigned_to, due_date |-> None,
                  status |-> "pending", priority |-> Some(items[k].priority),
                  completed_at |-> None]]

\* Lines 189-198 for the first n extracted items: the table afterwards.
CreateItems(table, call_id, items, n) ==
    table \o [k \in 1..n |-> NewActionItem(call_id, items[k])]

\* analyze_call returns or raises; on a result, lines 178-206 up to
\* await send_call_summary_notification.  failing = 0: every write commits;
\* failing = 1: the analysis commit fails; failing = j + 1: the commit of
\* the j-th action item fails.
AnalysisDone(r) ==
    /\ r \in DOMAIN runs
    /\ runs[r].pc = "analyzing"
    /\ LET c == runs[r].call_id
       IN  \/ /\ summaries' = Rollback(summaries, summaries)
              /\ runs' = [runs EXCEPT ![r] = Failed(@, "analysis")]
              /\ UNCHANGED action_items
           \/ \E response \in BackendResponses :
                LET result == analyze_call(response)
                IN  IF result = None
                    THEN /\ summaries' = Rollback(summaries, summaries)
                         /\ runs' = [runs EXCEPT ![r] = Failed(@, "analysis")]
                         /\ UNCHANGED action_items
                    ELSE LET analysis == Val(result)
                             n == Len(analysis.action_items)
                             written == SummaryWithAnalysis(summaries, c, analysis, now)
                         IN  \E failing \in 0..(n + 1) :
                               IF failing = 0
                               THEN /\ summaries' = written
                                    /\ action_items' =
                                         CreateItems(action_items, c,
                                                     analysis.action_items, n)
                                    /\ runs' = [runs EXCEPT
                                         ![r].pc = "notifying",
                                         ![r].analysis = Some(analysis),
                                         ![r].action_items =
                                            [k \in 1..n |-> Len(action_items) + k],
                                         ![r].notified = @ + 1]
                               ELSE IF failing = 1
                               THEN /\ summaries' = Rollback(summaries, written)
                                    /\ UNCHANGED action_items
                                    /\ runs' = [runs EXCEPT
                                         ![r] = Failed(@, "analysis write")]
                               ELSE /\ summaries' = Rollback(written, written)
                                    /\ action_items' =
                                         CreateItems(action_items, c,
                                                     analysis.action_items, failing - 2)
                                    /\ runs' = [runs EXCEPT
                                         ![r] = Failed(
                                            [@ EXCEPT
                                               !.analysis = Some(analysis),
                                               !.action_items =
                                                  [k \in 1..(failing - 2) |->
                                                      Len(action_items) + k]],
                                            "action items")]
    /\ UNCHANGED <<calls, inflight, responses, now>>
    /\ UNCHANGED io_vars

\* send_call_summary_notification returns or raises.
NotifyDone(r) ==
    /\ r \in DOMAIN runs
    /\ runs[r].pc = "notifying"
    /\ \/ runs' = [runs EXCEPT ![r].pc = "completed"]
       \/ runs' = [runs EXCEPT ![r] = Failed(@, "notification")]
    /\ summaries' = Rollback(summaries, summaries)
    /\ UNCHANGED <<calls, action_items, inflight, responses, now>>
    /\ UNCHANGED io_vars

----------------------------------------------------------------------------
(* The simulate endpoint, POST /api/calls/simulate.                        *)

\* request.summary as sent: a dict, of which some keys may be missing.
FullSummary ==
    [summary |-> Some("Simulated summary"), sentiment |-> Some("positive"),
     urgency_score |-> Some(4), key_topics |-> <<"demo", "test">>,
     action_items |-> <<[description |-> "Follow up", assigned_to |-> None,
                         priority |-> None]>>]

SparseSummary ==
    [summary |-> None, sentiment |-> Some("thrilled"), urgency_score |-> None,
     key_topics |-> << >>, action_items |-> << >>]

SimulateRequests ==
    {[start_time |-> GoodTime, recording_url |-> Some("https://rec/sim"),
      transcript |-> Some("Simulated transcript"), summary |-> Some(FullSummary)],
     [start_time |-> GoodTime, recording_url |-> Some("https://rec/sim"),
      transcript |-> None, summary |-> Some(SparseSummary)],
     [start_time |-> GoodTime, recording_url |-> None,
      transcript |-> Some("Simulated transcript"), summary |-> None],
     [start_time |-> BadTime, recording_url |-> None,
      transcript |-> None, summary |-> None]}

\* f"SIM-{int(start_time.timestamp())}"
SimGotoId(t) == IF t = 0 THEN "SIM-0" ELSE "SIM-1"

\* The rows the simulate endpoint created.
IsSimulated(row) == row.goto_call_id \in {SimGotoId(0), SimGotoId(1)}

\* sentiment_map.get(sentiment, SentimentType.NEUTRAL)
SentimentMapGet(sentiment) ==
    IF IsSet(sentiment) /\ Val(sentiment) \in SentimentType
    THEN Val(sentiment) ELSE "neutral"

\* The CallSummary row simulate_call builds.
SimulatedSummary(request, start) ==
    [id |-> None, transcript |-> request.transcript,
     summary |-> Val(request.summary).summary,
     sentiment |-> Some(SentimentMapGet(Val(request.summary).sentiment)),
     urgency_score |-> IF IsSet(Val(request.summary).urgency_score)
                       THEN Val(request.summary).urgency_score ELSE Some(3),
     key_topics |-> Some(Join(", ", Val(request.summary).key_topics)),
     transcription_started_at |-> None,
     transcription_completed_at |-> Some(start),
     analysis_started_at |-> None,
     analysis_completed_at |-> Some(start)]

SimulatedItem(call_id, item) ==
    [call_id |-> call_id, description |-> item.description,
     assigned_to |-> item.assigned_to, due_date |-> None,
     status |-> "pending",
     priority |-> IF IsSet(item.priority) THEN item.priority ELSE Some(3),
     completed_at |-> None]

SimulateResponse(code, status) ==
    [endpoint |-> "simulate", status_code |-> code, status |-> status,
     call_id |-> None, body |-> "", signature |-> None,
     arrived |-> Len(responses)]

\* simulate_call: one transaction; any exception rolls it back and answers 500.
simulate_call ==
    /\ Len(responses) + Len(inflight) < MaxRequests
    /\ \E request \in SimulateRequests :
          LET start == fromisoformat(request.start_time)
              id == Len(calls) + 1
          IN  IF start = None \/ UniqueViolation(calls, SimGotoId(Val(start)))
              THEN /\ responses' = Append(responses, SimulateResponse(500, ""))
                   /\ UNCHANGED <<calls, summaries, action_items>>
              ELSE /\ responses' = Append(responses, SimulateResponse(200, "success"))
                   /\ calls' = Append(calls,
                         [goto_call_id |-> SimGotoId(Val(start)),
                          direction |-> "inbound",
                          start_time |-> start, end_time |-> start,
                          duration_seconds |-> 60,
                          recording_url |-> request.recording_url,
                          webhook_received_at |-> Some(now)])
                   /\ IF IsSet(request.summary)
                      THEN /\ summaries' =
                                summaries @@ (id :> [SimulatedSummary(request, Val(start))
                                                    EXCEPT !.id = Some(NextSummaryId(summaries))])
                           /\ action_items' = action_items \o
                                [k \in DOMAIN Val(request.summary).action_items |->
                                    SimulatedItem(id, Val(request.summary).action_items[k])]
                      ELSE UNCHANGED <<summaries, action_items>>
    /\ UNCHANGED <<inflight, runs, now>>
    /\ UNCHANGED io_vars

----------------------------------------------------------------------------
(* The ActionItem status operations of /api/actions.                       *)

ActionItemStatus == {"pending", "in_progress", "completed", "cancelled"}

\* setattr(action_item, key, value) for every key of kwargs.
SetAttrs(item, kwargs) ==
    [f \in DOMAIN item |-> IF f \in DOMAIN kwargs THEN kwargs[f] ELSE item[f]]

\* ActionItemRepository.update
ActionItemRepository_update(item, kwargs, t) ==
    LET updated == SetAttrs(item, kwargs)
    IN  IF "status" \in DOMAIN kwargs /\ kwargs.status = "completed"
           /\ updated.completed_at = None
        THEN [updated EXCEPT !.completed_at = Some(t)]
        ELSE updated

\* Bodies of PATCH /api/actions/{id}: the update_dict built from them.
UpdateDicts ==
    {[status |-> st] : st \in ActionItemStatus}
    \cup {[assigned_to |-> Some("Kim")]}
    \cup {[status |-> "completed", assigned_to |-> Some("Kim")]}

\* PATCH /api/actions/{action_id}
update_action_item(action_id) ==
    /\ action_id \in DOMAIN action_items
    /\ \E update_dict \in UpdateDicts :
          action_items' = [action_items EXCEPT ![action_id] =
              ActionItemRepository_update(@, update_dict, now)]
    /\ UNCHANGED <<calls, summaries, inflight, responses, runs, now>>
    /\ UNCHANGED io_vars

\* A complete without the early return for an item that is completed already.
complete_action_item_Always(action_id) ==
    /\ action_id \in DOMAIN action_items
    /\ action_items' = [action_items EXCEPT ![action_id] =
          ActionItemRepository_update(
              @, [status |-> "completed", completed_at |-> Some(now)], now)]
    /\ UNCHANGED <<calls, summaries, inflight, responses, runs, now>>
    /\ UNCHANGED io_vars

\* POST /api/actions/{action_id}/complete
complete_action_item(action_id) ==
    /\ action_id \in DOMAIN action_items
    /\ action_items' =
          IF action_items[action_id].status = "completed"
          THEN action_items
          ELSE [action_items EXCEPT ![action_id] =
                   ActionItemRepository_update(
                       @, [status |-> "completed", completed_at |-> Some(now)], now)]
    /\ UNCHANGED <<calls, summaries, inflight, responses, runs, now>>
    /\ UNCHANGED io_vars

\* POST /api/actions/{action_id}/reopen
reopen_action_item(action_id) ==
    /\ action_id \in DOMAIN action_items
    /\ action_items' = [action_items EXCEPT ![action_id] =
          ActionItemRepository_update(
              @, [status |-> "pending", completed_at |-> None], now)]
    /\ UNCHANGED <<calls, summaries, inflight, responses, runs, now>>
    /\ UNCHANGED io_vars

----------------------------------------------------------------------------
(* Download and transcription, TranscriptionService.transcribe_from_url.   *)

\* _get_extension_from_content_type(content_type)
get_extension_from_content_type(content_type) ==
    CASE content_type = "audio/mpeg" -> Some(".mp3")
      [] content_type = "audio/ogg" -> Some(".ogg")
      [] OTHER -> None

\* Lines 67-71: the extension of the temp file.
Extension(content_type, url_suffix) ==
    IF IsSet(get_extension_from_content_type(content_type))
    THEN Val(get_extension_from_content_type(content_type))
    ELSE IF url_suffix # "" THEN url_suffix ELSE ".mp3"

\* What a recording URL may answer with.
ContentTypes == {"audio/mpeg", "audio/ogg", "application/octet-stream"}
UrlSuffixes == {".flac", ".webm", ""}
BodySizes == 1..(MaxAudioSize + 1)
ContentLengths == {None} \cup {Some(n) : n \in BodySizes}

compatible_formats == {".mp3", ".mp4", ".mpeg", ".mpga", ".m4a", ".wav", ".webm"}

\* tempfile.NamedTemporaryFile(delete=False, suffix=extension): a fresh name.
TempPath(n, extension) == <<"tmp", n, extension>>

\* Path(input_path).with_suffix(".mp3")
with_suffix(path, suffix) == <<path[1], path[2], suffix>>

\* An os.remove that leaves the file where it is.
remove_Noop(files, path) == files

\* os.path.exists / os.remove
exists(files, path) == path \in DOMAIN files
remove(files, path) == [f \in DOMAIN files \ {path} |-> files[f]]

\* A size check that lets every declared length through.
TooLarge_Never(content_length) == FALSE

\* Lines 57-65: the declared length, when there is one, exceeds the maximum.
TooLarge(content_length) ==
    IsSet(content_length) /\ Val(content_length) > MaxAudioSize

\* The finally of transcribe (lines 235-242): compatible_path is unbound when
\* the conversion raised, and the NameError is caught there.
CleanupCompatible(files, compatible_path) ==
    IF IsSet(compatible_path) /\ exists(files, Val(compatible_path))
    THEN remove(files, Val(compatible_path))
    ELSE files

\* The finally of transcribe_from_url (lines 278-285).
CleanupDownloaded(files, audio_path) ==
    IF IsSet(audio_path) /\ exists(files, Val(audio_path))
    THEN remove(files, Val(audio_path))
    ELSE files

Ended_(attempt, pc, error) == [attempt EXCEPT !.pc = pc, !.error = error]

\* download_audio up to the first chunk: the response arrives, its status and
\* declared length are checked, the temp file is created.
BeginDownload ==
    /\ Len(attempts) < MaxAttempts
    /\ \E status_ok \in BOOLEAN, content_type \in ContentTypes,
          url_suffix \in UrlSuffixes, content_length \in ContentLengths,
          body \in BodySizes :
          LET n == Len(attempts) + 1
              path == TempPath(n, Extension(content_type, url_suffix))
              attempt == [extension |-> Extension(content_type, url_suffix),
                          content_length |-> content_length, body |-> body,
                          written |-> 0, pc |-> "streaming", error |-> "",
                          temp_file |-> None, audio_path |-> None,
                          compatible_path |-> None]
          IN  IF ~status_ok
              THEN /\ attempts' = Append(attempts, Ended_(attempt, "failed", "HTTPError"))
                   /\ disk' = CleanupDownloaded(disk, None)
              ELSE IF TooLarge(content_length)
              THEN /\ attempts' = Append(attempts, Ended_(attempt, "failed", "ValueError"))
                   /\ disk' = CleanupDownloaded(disk, None)
              ELSE /\ attempts' = Append(attempts,
                                         [attempt EXCEPT !.temp_file = Some(path)])
                   /\ disk' = disk @@ (path :> 0)
    /\ UNCHANGED <<web_vars, notifier>>

\* Lines 82-86: one chunk of the stream is written, or the stream breaks.
\* download_audio has not returned then, so audio_path of transcribe_from_url
\* is still None in its finally.
StreamChunk(a) ==
    /\ a \in DOMAIN attempts
    /\ attempts[a].pc = "streaming"
    /\ attempts[a].written < attempts[a].body
    /\ LET path == Val(attempts[a].temp_file)
       IN  \/ /\ disk' = [disk EXCEPT ![path] = @ + 1]
              /\ attempts' = [attempts EXCEPT ![a].written = @ + 1]
           \/ /\ disk' = CleanupDownloaded(disk, attempts[a].audio_path)
              /\ attempts' = [attempts EXCEPT ![a] = Ended_(@, "failed", "HTTPError")]
    /\ UNCHANGED <<web_vars, notifier>>

\* The stream ends: download_audio returns, transcribe converts the file
\* (convert_to_whisper_format) and awaits the Whisper request.
EndOfStream(a) ==
    /\ a \in DOMAIN attempts
    /\ attempts[a].pc = "streaming"
    /\ attempts[a].written = attempts[a].body
    /\ LET input_path == Val(attempts[a].temp_file)
           output_path == with_suffix(input_path, ".mp3")
           downloaded == [attempts[a] EXCEPT !.audio_path = Some(input_path)]
       IN  IF attempts[a].extension \in compatible_formats
           THEN /\ attempts' = [attempts EXCEPT ![a] =
                      [downloaded EXCEPT !.pc = "transcribing",
                                         !.compatible_path = Some(input_path)]]
                /\ disk' = disk
           ELSE \/ /\ attempts' = [attempts EXCEPT ![a] =
                         [downloaded EXCEPT !.pc = "transcribing",
                                            !.compatible_path = Some(output_path)]]
                   /\ disk' = remove(disk @@ (output_path :> 1), input_path)
                \/ \E exported \in BOOLEAN :
                     /\ attempts' = [attempts EXCEPT ![a] =
                           Ended_(downloaded, "failed", "conversion")]
                     /\ disk' = CleanupDownloaded(
                                    CleanupCompatible(
                                        IF exported THEN disk @@ (output_path :> 0)
                                                    ELSE disk,
                                        None),
                                    Some(input_path))
    /\ UNCHANGED <<web_vars, notifier>>

\* The Whisper request returns or raises; both finally blocks run.
WhisperDone(a) ==
    /\ a \in DOMAIN attempts
    /\ attempts[a].pc = "transcribing"
    /\ \E ok \in BOOLEAN :
          attempts' = [attempts EXCEPT ![a] =
              IF ok THEN Ended_(@, "done", "") ELSE Ended_(@, "failed", "transcription")]
    /\ disk' = CleanupDownloaded(
                   CleanupCompatible(disk, attempts[a].compatible_path),
                   attempts[a].audio_path)
    /\ UNCHANGED <<web_vars, notifier>>

----------------------------------------------------------------------------
(* The notifier, NotificationService.send_call_summary_notification.       *)

\* A channel of one invocation is "off" (not configured), "queued" (its
\* coroutine was handed to asyncio.gather), "running" (awaiting its HTTP
\* request), "sent" or "raised".
Finished(state) == state \in {"off", "sent", "raised"}

\* A gather without return_exceptions: the first exception leaves it.
gather_Propagating(invocation) ==
    IF invocation.slack = "raised" \/ invocation.email = "raised" THEN "raised"
    ELSE IF Finished(invocation.slack) /\ Finished(invocation.email) THEN "returned"
    ELSE "pending"

\* await asyncio.gather(*tasks, return_exceptions=True), lines 58-66: it
\* returns once every task has finished and hands exceptions back as results.
gather(invocation) ==
    IF Finished(invocation.slack) /\ Finished(invocation.email)
    THEN "returned"
    ELSE "pending"

\* A notifier that treats an empty task list as an error.
NewInvocation_RaisesWhenEmpty(has_slack_configured, has_email_configured, run, items) ==
    [slack |-> IF has_slack_configured THEN "queued" ELSE "off",
     email |-> IF has_email_configured THEN "queued" ELSE "off",
     pc |-> IF has_slack_configured \/ has_email_configured
            THEN "gathering" ELSE "raised",
     run |-> run, action_items |-> items]

\* Lines 43-55: one coroutine per configured channel; with no channel the
\* function logs a warning and returns.  run is the pipeline run that made
\* the call, 0 when there is none; items is its action_items argument.
NewInvocation(has_slack_configured, has_email_configured, run, items) ==
    [slack |-> IF has_slack_configured THEN "queued" ELSE "off",
     email |-> IF has_email_configured THEN "queued" ELSE "off",
     pc |-> IF has_slack_configured \/ has_email_configured
            THEN "gathering" ELSE "returned",
     run |-> run, action_items |-> items]

\* Lines 43-59: one coroutine per configured channel, then the gather.
send_call_summary_notification ==
    /\ Len(notifier) < MaxNotifications
    /\ \E has_slack_configured, has_email_configured \in BOOLEAN :
          notifier' = Append(notifier,
              NewInvocation(has_slack_configured, has_email_configured, 0, << >>))
    /\ UNCHANGED <<web_vars, disk, attempts>>

\* _send_slack_notification: formatting, then the awaited HTTP request.
SlackStep(i) ==
    /\ i \in DOMAIN notifier
    /\ \/ /\ notifier[i].slack = "queued"
          /\ \E next \in {"running", "raised"} :
                notifier' = [notifier EXCEPT ![i].slack = next]
       \/ /\ notifier[i].slack = "running"
          /\ \E next \in {"sent", "raised"} :
                notifier' = [notifier EXCEPT ![i].slack = next]
    /\ UNCHANGED <<web_vars, disk, attempts>>

\* _send_email_notification: formatting and the SMTP dialogue, which has no
\* await and so runs in one step.
EmailStep(i) ==
    /\ i \in DOMAIN notifier
    /\ notifier[i].email = "queued"
    /\ \E next \in {"sent", "raised"} :
          notifier' = [notifier EXCEPT ![i].email = next]
    /\ UNCHANGED <<web_vars, disk, attempts>>

\* The gather is over and send_call_summary_notification ends.
GatherDone(i) ==
    /\ i \in DOMAIN notifier
    /\ notifier[i].pc = "gathering"
    /\ gather(notifier[i]) # "pending"
    /\ notifier' = [notifier EXCEPT ![i].pc = gather(notifier[i])]
    /\ UNCHANGED <<web_vars, disk, attempts>>

\* The invocations of the notifier that run r made.
InvocationsOf(r) == {i \in DOMAIN notifier : notifier[i].run = r}

\* webhooks.py lines 202-210: run r, its action items created, awaits
\* send_call_summary_notification.
RunNotifies(r) ==
    /\ r \in DOMAIN runs
    /\ runs[r].pc = "notifying"
    /\ InvocationsOf(r) = {}
    /\ Len(notifier) < MaxNotifications
    /\ \E has_slack_configured, has_email_configured \in BOOLEAN :
          notifier' = Append(notifier,
              NewInvocation(has_slack_configured, has_email_configured, r,
                            runs[r].action_items))
    /\ UNCHANGED <<web_vars, disk, attempts>>

\* send_call_summary_notification is over for run r: the run logs its
\* success (line 212), or the exception reaches its handler (214-223).
RunNotified(r) ==
    /\ r \in DOMAIN runs
    /\ runs[r].pc = "notifying"
    /\ \E i \in InvocationsOf(r) :
          /\ notifier[i].pc \in {"returned", "raised"}
          /\ runs' = [runs EXCEPT ![r] =
                 IF notifier[i].pc = "returned"
                 THEN [@ EXCEPT !.pc = "completed"]
                 ELSE Failed(@, "notification")]
    /\ summaries' = Rollback(summaries, summaries)
    /\ UNCHANGED <<calls, action_items, inflight, responses, now>>
    /\ UNCHANGED io_vars

----------------------------------------------------------------------------
(* Specifications.                                                         *)

\* Time passes.
Tick ==
    /\ now < MaxClock
    /\ now' = now + 1
    /\ UNCHANGED <<calls, summaries, action_items, inflight, responses, runs>>
    /\ UNCHANGED io_vars

Init ==
    /\ calls = << >>
    /\ summaries = << >>
    /\ action_items = << >>
    /\ inflight = << >>
    /\ responses = << >>
    /\ runs = << >>
    /\ now = 0
    /\ disk = << >>
    /\ attempts = << >>
    /\ notifier = << >>

\* Deliveries a telephony platform sends: well-formed and validly signed.
PlatformRequests ==
    {[body |-> b, signature |-> Some(HexDigest(Secret, b))] :
        b \in {"ended A rec", "ended A norec", "ended B rec"}}

\* A delivery of the platform, from its arrival to the handler's return.
DeliverWebhook ==
    /\ Len(responses) + Len(inflight) < MaxRequests
    /\ \E req \in PlatformRequests :
          LET out == WebhookOutcome([body |-> req.body, signature |-> req.signature,
                                     arrived |-> Len(responses)],
                                    calls, runs, now)
          IN  /\ responses' = Append(responses, out.response)
              /\ calls' = out.calls
              /\ runs' = out.runs
    /\ UNCHANGED <<summaries, action_items, inflight, now>>
    /\ UNCHANGED io_vars

RunIds == 1..MaxRequests

\* The whole system: deliveries, manual reprocessing and the pipeline.
Next ==
    \/ DeliverWebhook
    \/ manual_process_call
    \/ simulate_call
    \/ \E r \in RunIds : StartRun(r)
    \/ \E r \in RunIds : TranscriptionDone(r)
    \/ \E r \in RunIds : AnalysisDone(r)
    \/ \E r \in RunIds : NotifyDone(r)

Spec == Init /\ [][Next]_vars

\* The whole system with the clock advancing between steps.
NextTimed ==
    \/ Next
    \/ Tick

SpecTimed == Init /\ [][NextTimed]_vars

\* No download, transcription, analysis or store operation of a run has
\* failed (a notification may have).
OperationsSucceed ==
    \A r \in DOMAIN runs :
        runs[r].pc = "failed" => runs[r].failed_stage = "notification"

\* The steps of a run in which the operations succeed.
StartRunOk(r) == StartRun(r) /\ OperationsSucceed'

TranscriptionOk(r) == TranscriptionDone(r) /\ OperationsSucceed'

AnalysisOk(r) == AnalysisDone(r) /\ OperationsSucceed'

NextSucceeding ==
    \/ DeliverWebhook
    \/ manual_process_call
    \/ simulate_call
    \/ \E r \in RunIds : StartRunOk(r)
    \/ \E r \in RunIds : TranscriptionOk(r)
    \/ \E r \in RunIds : AnalysisOk(r)
    \/ \E r \in RunIds : NotifyDone(r)

\* The behaviours in which those operations succeed, under the event loop's
\* scheduling: a scheduled task is started, and an awaited operation returns.
LiveSpec ==
    /\ Init /\ [][NextSucceeding]_vars
    /\ \A r \in RunIds : /\ WF_vars(StartRunOk(r))
                         /\ WF_vars(TranscriptionOk(r))
                         /\ WF_vars(AnalysisOk(r))
                         /\ WF_vars(NotifyDone(r))

\* The action items of one analysed call, and the operations on them.
InitItems ==
    /\ calls = <<CallRow(Json("ended A rec"), 0)>>
    /\ summaries = << >>
    /\ action_items = CreateItems(<< >>, 1,
                                  [k \in 1..MaxItems |-> ParsedItem(ExtractedItem(k))],
                                  MaxItems)
    /\ inflight = << >>
    /\ responses = << >>
    /\ runs = << >>
    /\ now = 0
    /\ disk = << >>
    /\ attempts = << >>
    /\ notifier = << >>

ItemIds == 1..MaxItems

NextItems ==
    \/ \E id \in ItemIds : update_action_item(id)
    \/ \E id \in ItemIds : complete_action_item(id)
    \/ \E id \in ItemIds : reopen_action_item(id)
    \/ Tick

SpecItems == InitItems /\ [][NextItems]_vars

\* The webhook endpoint alone, with every kind of request.
ReceiveAnyRequest == Receive(Requests)

NextIngest ==
    \/ ReceiveAnyRequest
    \/ handle_call_ended_webhook

SpecIngest == Init /\ [][NextIngest]_vars

NotificationIds == 1..MaxNotifications

\* The notifier alone.
NextNotify ==
    \/ send_call_summary_notification
    \/ \E i \in NotificationIds : SlackStep(i)
    \/ \E i \in NotificationIds : EmailStep(i)
    \/ \E i \in NotificationIds : GatherDone(i)

SpecNotify == Init /\ [][NextNotify]_vars

\* Deliveries and their runs, each run calling the notifier itself.
NextRunNotify ==
    \/ DeliverWebhook
    \/ \E r \in RunIds : StartRun(r)
    \/ \E r \in RunIds : TranscriptionDone(r)
    \/ \E r \in RunIds : AnalysisDone(r)
    \/ \E r \in RunIds : RunNotifies(r)
    \/ \E i \in NotificationIds : SlackStep(i)
    \/ \E i \in NotificationIds : EmailStep(i)
    \/ \E i \in NotificationIds : GatherDone(i)
    \/ \E r \in RunIds : RunNotified(r)

SpecRunNotify == Init /\ [][NextRunNotify]_vars

AttemptIds == 1..MaxAttempts

\* Download-and-transcribe attempts alone.
NextAudio ==
    \/ BeginDownload
    \/ \E a \in AttemptIds : StreamChunk(a)
    \/ \E a \in AttemptIds : EndOfStream(a)
    \/ \E a \in AttemptIds : WhisperDone(a)

SpecAudio == Init /\ [][NextAudio]_vars

----------------------------------------------------------------------------
(* Properties of the webhook endpoint.                                     *)

ExternalIds == {"A", "B"}

\* Response k answers a delivery that carries the digest of its body under
\* the shared secret.
ValidlySigned(k) ==
    /\ responses[k].endpoint = "call-ended"
    /\ responses[k].signature = Some(HexDigest(Secret, responses[k].body))

\* Response k answers a validly signed call.ended payload for external id x
\* whose fields parse.
DeliveryOf(k, x) ==
    /\ ValidlySigned(k)
    /\ parse_raw_ok(responses[k].body)
    /\ Json(responses[k].body).event_type = "call.ended"
    /\ Json(responses[k].body).call_id = x
    /\ IsSet(fromisoformat(Json(responses[k].body).start_time))

RowsOf(x) == {i \in CallIds : calls[i].goto_call_id = x}

\* The two deliveries i < j of x, i the first of x, j sent after i was answered.
Sequential(i, j, x) ==
    /\ i < j
    /\ DeliveryOf(i, x) /\ DeliveryOf(j, x)
    /\ \A k \in 1..(i - 1) : ~DeliveryOf(k, x)
    /\ responses[j].arrived >= i

\* C1: when the same validly signed call.ended payload id is delivered twice,
\* one delivery after the other, the first is answered "accepted", the second
\* "duplicate", and the calls table holds exactly one row with that id.
C1_SequentialDuplicate ==
    \A x \in ExternalIds : \A i, j \in DOMAIN responses :
        Sequential(i, j, x) =>
            /\ responses[i].status_code = 200 /\ responses[i].status = "accepted"
            /\ responses[j].status_code = 200 /\ responses[j].status = "duplicate"
            /\ Cardinality(RowsOf(x)) = 1

C1_Witness ==
    \E i, j \in DOMAIN responses :
        /\ Sequential(i, j, "A")
        /\ responses[i].status = "accepted"
        /\ responses[j].status = "duplicate"
        /\ responses[i].body # responses[j].body
        /\ Cardinality(RowsOf("A")) = 1

\* C2: no two rows of the calls table carry the same external call id,
\* whatever deliveries, simulated calls, manual reprocessing requests and
\* pipeline steps have happened.
C2_OneRowPerExternalId ==
    \A i, j \in CallIds :
        calls[i].goto_call_id = calls[j].goto_call_id => i = j

\* A second insert of an external id already stored was attempted and refused.
C2_Witness ==
    /\ \E k \in DOMAIN responses : responses[k].status = "duplicate"
    /\ Cardinality(RowsOf("A")) = 1

\* C3: of the deliveries of one external id, whether they overlap or not,
\* exactly one is answered "accepted", every other one "duplicate", and none
\* is answered with an error.
C3_ConcurrentDeliveries ==
    \A x \in ExternalIds :
        LET D == {k \in DOMAIN responses : DeliveryOf(k, x)}
        IN  D # {} =>
              /\ Cardinality({k \in D : responses[k].status = "accepted"}) = 1
              /\ \A k \in D : /\ responses[k].status_code = 200
                               /\ responses[k].status \in {"accepted", "duplicate"}

\* Two deliveries of A in flight at the same time, the one that arrived
\* second answered first.
C3_Witness ==
    /\ Len(responses) = 2
    /\ DeliveryOf(1, "A") /\ DeliveryOf(2, "A")
    /\ responses[1].arrived = 0 /\ responses[2].arrived = 0
    /\ responses[1].body = "ended A alt" /\ responses[2].body = "ended A rec"
    /\ responses[1].status = "accepted" /\ responses[2].status = "duplicate"

\* C4: a request whose X-GoTo-Signature header is absent or is not the
\* digest of its body is answered 401, and creates no Call row and no run.
C4_BadSignature401 ==
    /\ \A k \in DOMAIN responses :
          (responses[k].endpoint = "call-ended" /\ ~ValidlySigned(k))
              => responses[k].status_code = 401
    /\ Len(calls) = Cardinality({k \in DOMAIN responses : ValidlySigned(k)
                                      /\ responses[k].status = "accepted"})
    /\ Len(runs) <= Len(calls)

\* Response k answers a validly signed JSON payload of another event type.
OtherEvent(k) ==
    /\ ValidlySigned(k)
    /\ Json(responses[k].body).json
    /\ Json(responses[k].body).event_type # "call.ended"

Accepted == {k \in DOMAIN responses : responses[k].status = "accepted"}

\* C14 as stated: every validly signed payload of an event type other than
\* call.ended is answered "ignored", whatever else it contains.
C14_AnyOtherEventIgnored ==
    \A k \in DOMAIN responses :
        OtherEvent(k) => responses[k].status = "ignored"

\* C14: a validly signed payload that matches the schema and whose event
\* type is not call.ended is answered 200 "ignored", whatever its other
\* fields hold; only accepted deliveries create Call rows and runs.
C14_OtherEventIgnored ==
    /\ \A k \in DOMAIN responses :
          (OtherEvent(k) /\ parse_raw_ok(responses[k].body)) =>
              /\ responses[k].status_code = 200
              /\ responses[k].status = "ignored"
              /\ responses[k].call_id = None
    /\ Len(calls) = Cardinality(Accepted)
    /\ Len(runs) <= Cardinality(Accepted)

\* A call.started payload for a stored call id, with a recording URL and a
\* start time that does not parse, was ignored.
C14_Witness ==
    /\ Len(responses) = 2
    /\ responses[1].status = "accepted"
    /\ responses[2].body = "started A badtime"
    /\ responses[2].status = "ignored"
    /\ Len(calls) = 1 /\ Len(runs) = 1

\* Response k answers a validly signed call.ended body that fails schema
\* validation or whose start_time or end_time does not parse.
Malformed(k) ==
    LET data == Json(responses[k].body)
    IN  /\ ValidlySigned(k)
        /\ \/ ~parse_raw_ok(responses[k].body)
           \/ /\ data.event_type = "call.ended"
              /\ \/ fromisoformat(data.start_time) = None
                 \/ /\ IsSet(data.end_time)
                    /\ fromisoformat(Val(data.end_time)) = None

\* C15: every validly signed call.ended request whose body fails schema
\* validation or carries an unparseable start_time or end_time is answered
\* 400 and creates no Call row and no run.
C15_Malformed400 ==
    /\ \A k \in DOMAIN responses :
          Malformed(k) => /\ responses[k].status_code = 400
                          /\ responses[k].call_id = None
    /\ \A k \in Accepted : ~Malformed(k)

C25_Step ==
    (/\ Len(responses') = Len(responses) + 1
     /\ responses'[Len(responses')].endpoint = "call-ended"
     /\ responses'[Len(responses')].status = "duplicate") =>
        /\ calls' = calls
        /\ summaries' = summaries
        /\ action_items' = action_items
        /\ runs' = runs

\* C25: a duplicate delivery, whatever its other fields hold, leaves every
\* field of the stored Call row as it was and creates no CallSummary row, no
\* ActionItem row and no run.
C25_DuplicateOverwritesNothing == [][C25_Step]_vars

\* Call A was stored from an inbound delivery of 345 seconds; a later
\* delivery for A with another direction, duration and recording URL was
\* answered "duplicate" and the row is as it was stored.
C25_Witness ==
    /\ Len(responses) = 2 /\ Len(calls) = 1
    /\ responses[1].body = "ended A rec" /\ responses[1].status = "accepted"
    /\ responses[2].body = "ended A alt" /\ responses[2].status = "duplicate"
    /\ calls[1].duration_seconds = 345
    /\ calls[1].recording_url = Some("https://rec/1")
    /\ calls[1].direction = "inbound"

\* C28: for the body and signature of every request the handler has
\* answered, the verifier returns true when the signature is the hex
\* HMAC-SHA256 of the body under the secret and false, without raising, for
\* every other signature and for an absent one.
C28_VerifierTrueIffDigest ==
    \A k \in DOMAIN responses :
        responses[k].endpoint = "call-ended" =>
            validate_webhook_signature(responses[k].body, responses[k].signature,
                                       Secret)
                = IF responses[k].signature =
                        Some(HexDigest(Secret, responses[k].body))
                  THEN "true" ELSE "false"

----------------------------------------------------------------------------
(* Properties of the pipeline.                                             *)

StageOrder(pc) ==
    CASE pc = "scheduled" -> 0
      [] pc = "transcribing" -> 1
      [] pc = "analyzing" -> 2
      [] pc = "notifying" -> 3
      [] pc = "completed" -> 4
      [] OTHER -> 5

\* What is committed while run r awaits the external operation of its stage.
CommittedBefore(r) ==
    LET c == runs[r].call_id
        pc == runs[r].pc
    IN  /\ pc \in {"transcribing", "analyzing", "notifying", "completed"} =>
              /\ c \in DOMAIN summaries
              /\ IsSet(summaries[c].transcription_started_at)
        /\ pc \in {"scheduled", "transcribing"} =>
              /\ runs[r].transcript = None
              /\ runs[r].analysis = None
        /\ pc \in {"analyzing", "notifying", "completed"} =>
              /\ IsSet(runs[r].transcript)
              /\ IsSet(summaries[c].transcript)
              /\ IsSet(summaries[c].transcription_completed_at)
              /\ IsSet(summaries[c].analysis_started_at)
        /\ pc \in {"scheduled", "transcribing", "analyzing"} =>
              /\ runs[r].action_items = << >>
              /\ runs[r].notified = 0
        /\ pc \in {"notifying", "completed"} =>
              /\ IsSet(runs[r].analysis)
              /\ IsSet(summaries[c].analysis_completed_at)
              /\ Len(runs[r].action_items) = Len(Val(runs[r].analysis).action_items)
              /\ \A k \in DOMAIN runs[r].action_items :
                    /\ runs[r].action_items[k] \in DOMAIN action_items
                    /\ action_items[runs[r].action_items[k]].call_id = c
              /\ runs[r].notified = 1

StageStep ==
    \A r \in DOMAIN runs :
        runs'[r].pc # runs[r].pc =>
            /\ StageOrder(runs[r].pc) < 4
            /\ \/ StageOrder(runs'[r].pc) = StageOrder(runs[r].pc) + 1
               \/ StageOrder(runs'[r].pc) = 5

\* C6: a run goes through transcription, analysis, action-item creation and
\* notification in that order, and while it awaits the external operation
\* of a stage the database writes of the stages before it are committed.
C6_StagesInOrder == [](\A r \in DOMAIN runs : CommittedBefore(r)) /\ [][StageStep]_vars

C6_Witness ==
    \E r \in DOMAIN runs :
        /\ runs[r].pc = "completed"
        /\ Len(runs[r].action_items) = MaxItems

\* Run r ends as failed in this step.
Fails(r) == runs[r].pc # "failed" /\ runs'[r].pc = "failed"

C7_Step ==
    \A r \in DOMAIN runs :
        (Fails(r) /\ runs'[r].failed_stage = "transcription"
            /\ ~IsSimulated(calls[runs[r].call_id])) =>
            /\ IsSet(summaries'[runs[r].call_id].transcription_started_at)
            /\ summaries'[runs[r].call_id].transcript = None
            /\ runs'[r].action_items = << >>
            /\ runs'[r].notified = 0

\* C7: when the transcription backend raises, the run ends with the call's
\* summary having transcription_started_at set and a null transcript, and
\* the run has created no action item and sent no notification.
C7_TranscriptionFailure == [][C7_Step]_vars

C8_Step ==
    \A r \in DOMAIN runs :
        /\ runs'[r].pc # "raised"
        /\ Fails(r) =>
              LET c == runs[r].call_id
                  stage == runs'[r].failed_stage
              IN  /\ calls' = calls
                  /\ stage # "action items" =>
                        /\ summaries' = summaries
                        /\ action_items' = action_items
                  /\ stage = "action items" =>
                        /\ \A d \in DOMAIN summaries' \ {c} :
                              summaries'[d] = summaries[d]
                        /\ summaries'[c].analysis_completed_at = Some(now)
                        /\ summaries'[c].sentiment =
                              Some(Val(runs'[r].analysis).sentiment)
                        /\ summaries'[c].transcript = summaries[c].transcript
                        /\ SubSeq(action_items', 1, Len(action_items)) = action_items
                        /\ Len(action_items') =
                              Len(action_items) + Len(runs'[r].action_items)
                        /\ Len(runs'[r].action_items) <
                              Len(Val(runs'[r].analysis).action_items)

\* C8: a failure at any step ends the run without an exception leaving the
\* task, and leaves the tables exactly as the last commit before the failing
\* step left them.
C8_FailureContained == [][C8_Step]_vars

\* Runs have failed at the first and at the last step that can fail.
C8_Witness ==
    \E r, q \in DOMAIN runs :
        /\ runs[r].pc = "failed" /\ runs[r].failed_stage = "call lookup"
        /\ runs[q].pc = "failed" /\ runs[q].failed_stage = "action items"
        /\ Len(runs[q].action_items) = 1

\* Run r has produced everything a successful run produces.
RunComplete(r) ==
    LET c == runs[r].call_id
    IN  /\ c \in DOMAIN summaries
        /\ IsSet(summaries[c].transcript)
        /\ IsSet(summaries[c].summary)
        /\ IsSet(summaries[c].sentiment)
        /\ Val(summaries[c].sentiment) \in {"positive", "neutral", "negative"}
        /\ IsSet(summaries[c].urgency_score)
        /\ Val(summaries[c].urgency_score) \in 1..5
        /\ IsSet(summaries[c].analysis_completed_at)
        /\ IsSet(runs[r].analysis)
        /\ Len(runs[r].action_items) = Len(Val(runs[r].analysis).action_items)
        /\ \A k \in DOMAIN runs[r].action_items :
              /\ runs[r].action_items[k] \in DOMAIN action_items
              /\ action_items[runs[r].action_items[k]].call_id = c
              /\ action_items[runs[r].action_items[k]].description =
                    Val(runs[r].analysis).action_items[k].description
        /\ runs[r].notified = 1

\* C9: when the download, transcription, analysis and store operations
\* succeed, a run scheduled by an accepted delivery with a recording URL
\* eventually ends with a full summary (sentiment one of the three values,
\* urgency in 1..5), one action item per extracted item and the notifier
\* invoked exactly once.
C9_EventuallyProcessed ==
    \A r \in RunIds :
        (r \in DOMAIN runs /\ runs[r].origin = "webhook")
            ~> (/\ r \in DOMAIN runs
                /\ runs[r].pc \in {"completed", "failed"}
                /\ RunComplete(r))

C9_Witness ==
    \E r \in DOMAIN runs :
        /\ runs[r].origin = "webhook"
        /\ runs[r].pc = "completed"
        /\ RunComplete(r)
        /\ Len(runs[r].action_items) = MaxItems

\* A step of a run, or a manual reprocessing request.
Reprocessing ==
    \/ \E r \in DOMAIN runs : runs'[r].pc # runs[r].pc
    \/ /\ Len(responses') = Len(responses) + 1
       /\ responses'[Len(responses')].endpoint = "manual-process"

C13_Step ==
    Reprocessing =>
        /\ calls' = calls
        /\ \A c \in DOMAIN summaries :
              /\ c \in DOMAIN summaries'
              /\ summaries'[c].id = summaries[c].id
        /\ \A c \in DOMAIN summaries' \ DOMAIN summaries :
              /\ \E r \in DOMAIN runs :
                    runs[r].call_id = c /\ runs[r].pc = "scheduled"
                                       /\ runs'[r].pc = "transcribing"
              /\ \A d \in DOMAIN summaries : summaries'[c].id # summaries[d].id

\* C13: a pipeline run or a manual reprocessing request never creates,
\* deletes or changes a Call row, and a run of a call that has a summary
\* keeps that row (same id) and adds no other; a summary row is only
\* inserted by the first run of a call that has none.
C13_SummaryUpdatedInPlace == [][C13_Step]_vars

\* A call has been run twice, once to completion and once to a failure.
C13_Witness ==
    \E r, q \in DOMAIN runs :
        /\ runs[r].call_id = runs[q].call_id
        /\ runs[r].pc = "completed" /\ runs[q].pc = "failed"
        /\ runs[q].origin = "manual"
        /\ runs[q].failed_stage # "call lookup"

\* C18: in every CallSummary row, written by the pipeline or by the simulate
\* endpoint, transcription_completed_at is set exactly when transcript is,
\* and analysis_completed_at exactly when summary, sentiment and
\* urgency_score all are.
C18_CompletionIffContent ==
    \A c \in DOMAIN summaries :
        /\ IsSet(summaries[c].transcription_completed_at)
              <=> IsSet(summaries[c].transcript)
        /\ IsSet(summaries[c].analysis_completed_at)
              <=> /\ IsSet(summaries[c].summary)
                  /\ IsSet(summaries[c].sentiment)
                  /\ IsSet(summaries[c].urgency_score)

\* started and completed are both set and started is the later one.
StartedAfterCompleted(started, completed) ==
    IsSet(started) /\ IsSet(completed) /\ Val(started) > Val(completed)

\* C19: in every summary the pipeline created, across first runs and
\* re-runs, a stage's started timestamp is not later than its completed
\* timestamp whenever both are set.
C19_StartedBeforeCompleted ==
    \A c \in DOMAIN summaries :
        ~IsSimulated(calls[c]) =>
            /\ ~StartedAfterCompleted(summaries[c].transcription_started_at,
                                      summaries[c].transcription_completed_at)
            /\ ~StartedAfterCompleted(summaries[c].analysis_started_at,
                                      summaries[c].analysis_completed_at)

\* Run r is the only run of its call that has not ended.
LastActive(r) ==
    \A q \in DOMAIN runs \ {r} :
        runs[q].call_id = runs[r].call_id =>
            runs[q].pc \in {"completed", "failed", "call not found"}

C20_Step ==
    \A r \in DOMAIN runs :
        (Fails(r) /\ LastActive(r) /\ ~IsSimulated(calls[runs[r].call_id])) =>
            LET row == summaries'[runs[r].call_id]
                stage == runs'[r].failed_stage
            IN  /\ stage \in {"download", "transcription"} =>
                      row.transcription_completed_at = None
                /\ stage = "analysis" => row.analysis_completed_at = None

\* C20: when the latest run of a call fails, re-runs included, the Summary
\* row shows it: transcription_completed_at is unset after a failure in
\* download or transcription, analysis_completed_at after one in analysis.
C20_FailureVisible == [][C20_Step]_vars

\* Every external operation of run r has been attempted at most once.
AttemptedOnce(r) ==
    /\ runs[r].attempted.download <= 1
    /\ runs[r].attempted.transcription <= 1
    /\ runs[r].attempted.analysis <= 1
    /\ runs[r].notified <= 1

\* A run that has ended does nothing more.
C21_Step ==
    \A r \in DOMAIN runs :
        runs[r].pc \in {"failed", "completed", "call not found"} =>
            runs'[r] = runs[r]

ManualStep ==
    /\ Len(responses') = Len(responses) + 1
    /\ responses'[Len(responses')].endpoint = "manual-process"

C22_Step ==
    ManualStep =>
        LET answer == responses'[Len(responses')]
            id == answer.requested
            known == id \in DOMAIN calls
            has_url == known /\ IsSet(calls[id].recording_url)
        IN  /\ calls' = calls /\ summaries' = summaries
            /\ action_items' = action_items
            /\ ~known => answer.status_code = 404 /\ runs' = runs
            /\ (known /\ ~has_url) => answer.status_code = 400 /\ runs' = runs
            /\ has_url =>
                  /\ answer.status_code = 200
                  /\ Len(runs') = Len(runs) + 1
                  /\ SubSeq(runs', 1, Len(runs)) = runs
                  /\ runs'[Len(runs')].call_id = id
                  /\ runs'[Len(runs')].recording_url = Val(calls[id].recording_url)
                  /\ runs'[Len(runs')].pc = "scheduled"

\* C22: manual-process answers 404 for an unknown call id and 400 for a call
\* without a recording URL, scheduling no run and changing no stored row in
\* either case; for a call with a recording URL it schedules one run of it.
C22_ManualProcess == [][C22_Step]_vars

\* A request for a call stored without a recording URL was answered 400,
\* and no run exists.
C22_Witness ==
    /\ Len(responses) = 2
    /\ Len(calls) = 1 /\ calls[1].recording_url = None
    /\ responses[2].endpoint = "manual-process"
    /\ responses[2].status_code = 400
    /\ responses[2].requested = 1
    /\ runs = << >>

\* The part of a response the sender sees.
Seen(response) == <<response.status_code, response.status>>

\* The answer request req would get now, and the answer it would get with
\* the same Call rows if no run had ever been scheduled.
AnswerNow(req) ==
    Seen(WebhookOutcome([body |-> req.body, signature |-> req.signature,
                         arrived |-> 0], calls, runs, now).response)

AnswerWithoutRuns(req) ==
    Seen(WebhookOutcome([body |-> req.body, signature |-> req.signature,
                         arrived |-> 0], calls, << >>, 0).response)

\* This step is the call-ended handler answering a request.
WebhookStep ==
    /\ Len(responses') = Len(responses) + 1
    /\ responses'[Len(responses')].endpoint = "call-ended"

C23_Step ==
    /\ \A k \in DOMAIN responses : responses'[k] = responses[k]
    /\ WebhookStep =>
          /\ summaries' = summaries /\ action_items' = action_items
          /\ \A r \in DOMAIN runs : runs'[r] = runs[r]
          /\ \A r \in DOMAIN runs' \ DOMAIN runs :
                /\ runs'[r].pc = "scheduled"
                /\ runs'[r].attempted =
                      [download |-> 0, transcription |-> 0, analysis |-> 0]

InProgress(r) == runs[r].pc \in {"transcribing", "analyzing", "notifying"}

\* C24: no two pipeline runs of the same Call are in progress at the same
\* time, whatever the interleaving of deliveries and manual requests.
C24_OneRunPerCall ==
    \A r, q \in DOMAIN runs :
        (r # q /\ runs[r].call_id = runs[q].call_id) =>
            ~(InProgress(r) /\ InProgress(q))

\* The ActionItem rows of call c.
ItemsOf(table, c) == {i \in DOMAIN table : table[i].call_id = c}

\* A step of run r writes only the summary and the action items of its call.
C26_Step ==
    \A r \in DOMAIN runs :
        runs'[r] # runs[r] =>
            LET c == runs[r].call_id
            IN  /\ calls' = calls
                /\ DOMAIN summaries' \subseteq DOMAIN summaries \cup {c}
                /\ \A d \in DOMAIN summaries \ {c} :
                      d \in DOMAIN summaries' /\ summaries'[d] = summaries[d]
                /\ SubSeq(action_items', 1, Len(action_items)) = action_items
                /\ \A i \in DOMAIN action_items' \ DOMAIN action_items :
                      action_items'[i].call_id = c

\* Run r is the only run of its call, the call came from the webhook, and
\* the run has completed.
SoleCompleted(r) ==
    /\ runs[r].pc = "completed"
    /\ ~IsSimulated(calls[runs[r].call_id])
    /\ \A q \in DOMAIN runs \ {r} : runs[q].call_id # runs[r].call_id

\* The rows of run r's call hold what run r itself obtained.
OwnResults(r) ==
    LET c == runs[r].call_id
        analysis == Val(runs[r].analysis)
    IN  /\ summaries[c].transcript = runs[r].transcript
        /\ summaries[c].summary = Some(analysis.summary)
        /\ summaries[c].sentiment = Some(analysis.sentiment)
        /\ summaries[c].urgency_score = Some(analysis.urgency_score)
        /\ Cardinality(ItemsOf(action_items, c)) = Len(analysis.action_items)
        /\ \A k \in DOMAIN runs[r].action_items :
              action_items[runs[r].action_items[k]].description =
                  analysis.action_items[k].description

\* C26: every step of a run of call A leaves the calls table, the summaries
\* of other calls and the existing action items unchanged and adds rows for
\* A only; and a completed run of a call B ends with B's rows holding B's
\* own results whatever the runs of other calls did, failures included.
C26_WritesScopedToCall ==
    /\ [](\A r \in DOMAIN runs : SoleCompleted(r) => OwnResults(r))
    /\ [][C26_Step]_vars

\* Runs of two different calls: one failed after its transcript was
\* written, the other completed with action items.
C26_Witness ==
    \E r, q \in DOMAIN runs :
        /\ runs[r].call_id # runs[q].call_id
        /\ runs[r].pc = "failed" /\ runs[r].failed_stage = "analysis"
        /\ SoleCompleted(q)
        /\ Len(runs[q].action_items) > 0

\* Row holds the k-th extracted item of a run of call c.
RowOfExtracted(row, c, k) ==
    /\ row.call_id = c
    /\ row.status = "pending"
    /\ row.completed_at = None
    /\ row.description = ExtractedItem(k).description
    /\ row.assigned_to = ExtractedItem(k).assigned_to
    /\ IsSet(row.priority) /\ Val(row.priority) \in 1..5
    /\ row.priority = IF IsSet(ExtractedItem(k).priority)
                      THEN ExtractedItem(k).priority ELSE Some(3)

C27_Step ==
    \A r \in DOMAIN runs :
        (runs[r].pc = "analyzing" /\ runs'[r].pc = "notifying") =>
            LET n == Len(Val(runs'[r].analysis).action_items)
                base == Len(action_items)
            IN  /\ Len(action_items') = base + n
                /\ SubSeq(action_items', 1, base) = action_items
                /\ runs'[r].action_items = [k \in 1..n |-> base + k]
                /\ \A k \in 1..n :
                      RowOfExtracted(action_items'[base + k], runs[r].call_id, k)

\* C27: a run whose analysis returned N action items and whose creations
\* all succeeded adds exactly N ActionItem rows for its call, in extraction
\* order, each pending with completed_at null and with the description,
\* assignee and priority (in 1..5, 3 when the item gave none) of its item.
C27_ItemsAsExtracted == [][C27_Step]_vars

\* A run created both extracted items: the first with priority 5 and an
\* assignee, the second with neither.
C27_Witness ==
    \E r \in DOMAIN runs :
        /\ runs[r].pc = "notifying"
        /\ Len(runs[r].action_items) = MaxItems
        /\ action_items[runs[r].action_items[1]].priority = Some(5)
        /\ action_items[runs[r].action_items[2]].priority = Some(3)
        /\ action_items[runs[r].action_items[2]].assigned_to = None

\* The fields of a summary row that the analysis stage writes.
AnalysisFields(row) ==
    <<row.summary, row.sentiment, row.urgency_score, row.key_topics,
      row.analysis_completed_at>>

C29_Step ==
    \A r \in DOMAIN runs :
        (Fails(r) /\ runs'[r].failed_stage = "analysis") =>
            AnalysisFields(summaries'[runs[r].call_id])
                = AnalysisFields(summaries[runs[r].call_id])

\* C29: a summary of a call that came from the webhook never holds an
\* urgency_score outside 1..5 or a sentiment outside positive, neutral,
\* negative; when the analysis stage fails (no structured result, or a result
\* that violates the schema) the analysis fields of the row stay as they were.
C29_AnalysisValidated ==
    /\ [](\A c \in DOMAIN summaries :
            ~IsSimulated(calls[c]) =>
                /\ IsSet(summaries[c].urgency_score) =>
                      Val(summaries[c].urgency_score) \in 1..5
                /\ IsSet(summaries[c].sentiment) =>
                      Val(summaries[c].sentiment) \in
                          {"positive", "neutral", "negative"})
    /\ [][C29_Step]_vars

\* A call has a completed analysis and a run of it has failed in analysis.
C29_Witness ==
    \E r \in DOMAIN runs :
        /\ runs[r].pc = "failed" /\ runs[r].failed_stage = "analysis"
        /\ ~IsSimulated(calls[runs[r].call_id])
        /\ summaries[runs[r].call_id].urgency_score = Some(3)
        /\ IsSet(summaries[runs[r].call_id].analysis_completed_at)

\* The operations a run at position pc has behind it: every stage before
\* its position was attempted, none was skipped.
StagesBehind(r) ==
    /\ runs[r].pc \in {"transcribing", "analyzing", "notifying", "completed"} =>
          runs[r].attempted.download = 1
    /\ runs[r].pc \in {"analyzing", "notifying", "completed"} =>
          /\ runs[r].attempted.transcription = 1
          /\ runs[r].attempted.analysis = 1
          /\ IsSet(runs[r].transcript)
    /\ runs[r].pc \in {"notifying", "completed"} => IsSet(runs[r].analysis)

\* A scheduled run begins with the first stage, whatever its summary holds.
C31_Step ==
    \A r \in DOMAIN runs :
        (runs[r].pc = "scheduled" /\ runs'[r].pc # "scheduled") =>
            /\ runs'[r].pc \in {"transcribing", "failed", "call not found"}
            /\ runs'[r].pc = "transcribing" =>
                  /\ summaries'[runs[r].call_id].transcription_started_at
                        = Some(now)
                  /\ runs'[r].attempted.download = 1

\* C31: a run started by manual reprocessing starts at the first stage,
\* whatever an earlier run of the call completed: it records
\* transcription_started_at anew, then downloads, transcribes and analyzes
\* again; it never reaches a stage without having attempted the ones before.
C31_ManualRunRestarts ==
    /\ [](\A r \in DOMAIN runs : runs[r].origin = "manual" => StagesBehind(r))
    /\ [][C31_Step]_vars

\* A manual run of a call completed after the run of the call's delivery
\* had completed too.
C31_Witness ==
    \E r, q \in DOMAIN runs :
        /\ runs[r].call_id = runs[q].call_id
        /\ runs[q].origin = "webhook" /\ runs[q].pc = "completed"
        /\ runs[r].origin = "manual" /\ runs[r].pc = "completed"
        /\ runs[r].attempted =
              [download |-> 1, transcription |-> 1, analysis |-> 1]

\* The runs of call c.
RunsOf(c) == {r \in DOMAIN runs : runs[r].call_id = c}

\* The number of action items the runs in set S have created.
RECURSIVE CreatedBy(_)
CreatedBy(S) ==
    IF S = {} THEN 0
    ELSE LET r == CHOOSE x \in S : TRUE
         IN  Len(runs[r].action_items) + CreatedBy(S \ {r})

\* Run r created every item of its analysis.
CreatedAll(r) ==
    /\ IsSet(runs[r].analysis)
    /\ Len(runs[r].action_items) = Len(Val(runs[r].analysis).action_items)

\* No step removes or updates an ActionItem row.
C32_Step == SubSeq(action_items', 1, Len(action_items)) = action_items

\* C32: every run appends one row per item it creates and no run removes,
\* updates or merges rows: a call has as many ActionItem rows as its runs
\* created, so k runs that each created N items leave k*N rows.
C32_ItemsAccumulate ==
    /\ [](\A c \in DOMAIN calls :
            ~IsSimulated(calls[c]) =>
                /\ Cardinality(ItemsOf(action_items, c)) = CreatedBy(RunsOf(c))
                /\ \A n \in 0..MaxItems :
                      (\A r \in RunsOf(c) :
                          CreatedAll(r) /\ Len(runs[r].action_items) = n)
                        => Cardinality(ItemsOf(action_items, c))
                               = Cardinality(RunsOf(c)) * n)
    /\ [][C32_Step]_vars

\* Two completed runs of one call, each with the same MaxItems items: the
\* call has twice as many rows, the items of the second run repeating those
\* of the first.
C32_Witness ==
    \E c \in DOMAIN calls : \E r, q \in RunsOf(c) :
        /\ r # q
        /\ runs[r].pc = "completed" /\ runs[q].pc = "completed"
        /\ Len(runs[r].action_items) = MaxItems
        /\ Len(runs[q].action_items) = MaxItems
        /\ Cardinality(ItemsOf(action_items, c)) = 2 * MaxItems
        /\ action_items[runs[r].action_items[1]]
              = action_items[runs[q].action_items[1]]

\* The runs that webhook deliveries scheduled.
WebhookRuns == {r \in DOMAIN runs : runs[r].origin = "webhook"}

C33_Step ==
    (/\ Len(responses') = Len(responses) + 1
     /\ responses'[Len(responses')].endpoint = "call-ended"
     /\ runs' # runs) =>
        /\ responses'[Len(responses')].status = "accepted"
        /\ Len(calls') = Len(calls) + 1
        /\ IsSet(calls'[Len(calls')].recording_url)
        /\ runs' = Append(runs, NewRun(Len(calls'),
                                       Val(calls'[Len(calls')].recording_url),
                                       "webhook"))

\* C33: the webhook handler schedules a run only when it answers a delivery
\* that created a Call row and carried a recording URL; webhook runs are at
\* most one per external call id, each for a stored call with that URL; and
\* a webhook call stored without a recording URL has no run and no summary.
C33_RunOnlyForNewCallWithRecording ==
    /\ [](/\ \A r \in WebhookRuns :
                /\ runs[r].call_id \in DOMAIN calls
                /\ calls[runs[r].call_id].recording_url
                      = Some(runs[r].recording_url)
          /\ \A r, q \in WebhookRuns :
                calls[runs[r].call_id].goto_call_id
                    = calls[runs[q].call_id].goto_call_id => r = q
          /\ \A c \in DOMAIN calls :
                (~IsSimulated(calls[c]) /\ calls[c].recording_url = None) =>
                    RunsOf(c) = {} /\ c \notin DOMAIN summaries)
    /\ [][C33_Step]_vars

\* Call A was accepted without a recording URL; a later delivery for A with
\* a recording URL was a duplicate; A has no run and no summary.
C33_Witness ==
    /\ Len(responses) = 2 /\ Len(calls) = 1
    /\ responses[1].body = "ended A norec" /\ responses[1].status = "accepted"
    /\ responses[2].body = "ended A rec" /\ responses[2].status = "duplicate"
    /\ runs = << >> /\ summaries = << >>

\* C34: in every committed state of a summary the pipeline created,
\* transcription_completed_at is set exactly when analysis_started_at is:
\* the two are written, with the transcript, in one commit.
C34_TranscriptAndAnalysisStartTogether ==
    \A c \in DOMAIN summaries :
        ~IsSimulated(calls[c]) =>
            (IsSet(summaries[c].transcription_completed_at)
                <=> IsSet(summaries[c].analysis_started_at))

\* One call's run failed in analysis with both timestamps and the
\* transcript committed; another call's run failed before its transcript
\* commit and has neither.
C34_Witness ==
    \E r, q \in DOMAIN runs :
        /\ runs[r].pc = "failed" /\ runs[r].failed_stage = "analysis"
        /\ IsSet(summaries[runs[r].call_id].transcript)
        /\ IsSet(summaries[runs[r].call_id].transcription_completed_at)
        /\ IsSet(summaries[runs[r].call_id].analysis_started_at)
        /\ runs[q].pc = "failed" /\ runs[q].failed_stage = "transcript write"
        /\ summaries[runs[q].call_id].transcription_completed_at = None
        /\ summaries[runs[q].call_id].analysis_started_at = None

\* Run r is the first run scheduled for its call, a call from the webhook.
FirstRun(r) ==
    /\ ~IsSimulated(calls[runs[r].call_id])
    /\ \A q \in RunsOf(runs[r].call_id) : r <= q

C36_Step ==
    \A r \in DOMAIN runs :
        (Fails(r) /\ runs'[r].failed_stage = "analysis" /\ FirstRun(r)) =>
            LET c == runs[r].call_id
                row == summaries'[c]
            IN  /\ IsSet(row.transcript)
                /\ IsSet(row.transcription_completed_at)
                /\ IsSet(row.analysis_started_at)
                /\ row.analysis_completed_at = None
                /\ row.summary = None
                /\ row.sentiment = None
                /\ row.urgency_score = None
                /\ ItemsOf(action_items', c) = {}
                /\ runs'[r].notified = 0

\* C36: when the analysis stage fails in the first run of a call, the run
\* ends with transcript, transcription_completed_at and analysis_started_at
\* persisted, with analysis_completed_at, summary, sentiment and
\* urgency_score null, with no ActionItem row and no notification.
C36_AnalysisFailureInFirstRun == [][C36_Step]_vars

\* Run r has failed while creating its action items.
FailedInItems(r) == runs[r].pc = "failed" /\ runs[r].failed_stage = "action items"

C37_Step ==
    \A r \in DOMAIN runs :
        (Fails(r) /\ runs'[r].failed_stage = "action items") =>
            LET c == runs[r].call_id
                analysis == Val(runs'[r].analysis)
                created == Len(runs'[r].action_items)
                base == Len(action_items)
            IN  /\ created < Len(analysis.action_items)
                /\ Len(action_items') = base + created
                /\ SubSeq(action_items', 1, base) = action_items
                /\ \A k \in 1..created :
                      /\ runs'[r].action_items[k] = base + k
                      /\ action_items'[base + k] =
                            NewActionItem(c, analysis.action_items[k])
                /\ IsSet(summaries'[c].analysis_completed_at)
                /\ summaries'[c].summary = Some(analysis.summary)
                /\ summaries'[c].sentiment = Some(analysis.sentiment)
                /\ summaries'[c].urgency_score = Some(analysis.urgency_score)
                /\ runs'[r].notified = 0

\* After the failure the rows stay, the summary stays analysed and the run
\* does nothing more.
C37_Kept ==
    \A r \in DOMAIN runs :
        FailedInItems(r) =>
            /\ \A k \in DOMAIN runs[r].action_items :
                  /\ runs[r].action_items[k] \in DOMAIN action_items
                  /\ action_items[runs[r].action_items[k]].call_id = runs[r].call_id
            /\ IsSet(summaries[runs[r].call_id].analysis_completed_at)
            /\ IsSet(summaries[runs[r].call_id].summary)
            /\ runs[r].notified = 0

\* C37: action items are committed one by one: when the creation of the j-th
\* of N extracted items fails, the j-1 rows created before it are in the
\* table and stay there, the summary has analysis_completed_at and the
\* analysis fields, no further item is created and no notification is sent.
C37_ItemsCommittedOneByOne == [][C37_Step]_vars /\ []C37_Kept

\* A run has failed at the second of two items, and another at the first.
C37_Witness ==
    \E r, q \in DOMAIN runs :
        /\ FailedInItems(r) /\ FailedInItems(q)
        /\ Len(Val(runs[r].analysis).action_items) = 2
        /\ Len(runs[r].action_items) = 1
        /\ runs[q].action_items = << >>

----------------------------------------------------------------------------
(* Properties of the ActionItem status operations.                         *)

\* C10: after any sequence of update, complete and reopen operations, an
\* action item has completed_at set exactly when its status is completed.
C10_CompletedAtIffCompleted ==
    \A id \in DOMAIN action_items :
        IsSet(action_items[id].completed_at)
            <=> action_items[id].status = "completed"

\* No operation on an item that is completed and stays completed changes
\* its completed_at.
C39_Step ==
    \A id \in DOMAIN action_items :
        (action_items[id].status = "completed"
            /\ action_items'[id].status = "completed") =>
            action_items'[id].completed_at = action_items[id].completed_at

\* C39: completing an action item that is completed already changes nothing:
\* the status stays completed and completed_at keeps the value the first
\* completion gave it, however often the request is repeated and however
\* much later.
C39_RepeatedCompleteKeepsTime == [][C39_Step]_vars

\* An item was completed at time 0 and the clock has moved on, so that a
\* completion repeated now would be seen in completed_at.
C39_Witness ==
    \E id \in DOMAIN action_items :
        /\ action_items[id].status = "completed"
        /\ action_items[id].completed_at = Some(0)
        /\ now > 0

----------------------------------------------------------------------------
(* Properties of download and transcription.                               *)

\* The temp files attempt a has written.
FilesOf(a) == {f \in DOMAIN disk : f[2] = a}

\* C11: once a download-and-transcribe attempt has ended, on whatever exit
\* path, no temp file written by it remains on disk.
C11_NoResidualFile ==
    \A a \in DOMAIN attempts :
        attempts[a].pc \in {"done", "failed"} => FilesOf(a) = {}

\* The response of attempt a declared a Content-Length over the maximum.
DeclaredOver(a) ==
    /\ IsSet(attempts[a].content_length)
    /\ Val(attempts[a].content_length) > MaxAudioSize

\* C16: a download whose declared Content-Length exceeds the maximum is
\* rejected before anything is written: the attempt has failed, it has no
\* temp file and it wrote no byte.
C16_DeclaredTooLargeRejected ==
    \A a \in DOMAIN attempts :
        DeclaredOver(a) =>
            /\ attempts[a].pc = "failed"
            /\ attempts[a].error \in {"HTTPError", "ValueError"}
            /\ attempts[a].temp_file = None
            /\ attempts[a].written = 0
            /\ FilesOf(a) = {}

\* A response with a good status that declared too large a body was refused.
C16_Witness ==
    \E a \in DOMAIN attempts :
        /\ DeclaredOver(a)
        /\ attempts[a].error = "ValueError"
        /\ disk = << >>

\* C17: download_audio never persists more than the configured maximum size,
\* also when Content-Length is absent or understates the body: no temp file
\* ever holds more than the maximum.
C17_NeverOverMaximum ==
    \A f \in DOMAIN disk : disk[f] <= MaxAudioSize

\* The extensions the transcription service accepts.
WhisperAccepted == {".mp3", ".mp4", ".mpeg", ".mpga", ".m4a", ".wav", ".webm"}

\* In this step the download of attempt a returns and transcribe hands the
\* file to convert_to_whisper_format.
Normalizes(a) ==
    /\ attempts[a].pc = "streaming"
    /\ attempts'[a].pc # "streaming"
    /\ IsSet(attempts'[a].audio_path)

C38_Step ==
    \A a \in DOMAIN attempts :
        Normalizes(a) =>
            LET input_path == Val(attempts'[a].audio_path)
                returned == attempts'[a].compatible_path
            IN  /\ input_path[3] \in WhisperAccepted =>
                      /\ attempts'[a].pc = "transcribing"
                      /\ returned = Some(input_path)
                      /\ disk' = disk
                /\ input_path[3] \notin WhisperAccepted =>
                      \/ /\ attempts'[a].pc = "transcribing"
                         /\ IsSet(returned)
                         /\ Val(returned) # input_path
                         /\ Val(returned)[3] = ".mp3"
                         /\ Val(returned) \in DOMAIN disk'
                         /\ input_path \notin DOMAIN disk'
                      \/ /\ attempts'[a].pc = "failed"
                         /\ attempts'[a].error = "conversion"
                         /\ returned = None
                         /\ input_path \notin DOMAIN disk'

\* The downloaded file of an attempt that has ended is gone.
C38_OriginalGone ==
    \A a \in DOMAIN attempts :
        (attempts[a].pc \in {"done", "failed"} /\ IsSet(attempts[a].audio_path)) =>
            Val(attempts[a].audio_path) \notin DOMAIN disk

\* C38: the audio normalizer returns the input path, with the file untouched,
\* when the extension is one of mp3, mp4, mpeg, mpga, m4a, wav, webm;
\* otherwise on success it returns a new .mp3 path and the original file no
\* longer exists; when the conversion fails it raises and the original file
\* is gone once the enclosing transcription attempt has ended.
C38_Normalizer == [][C38_Step]_vars /\ []C38_OriginalGone

\* A file that needed conversion was converted and awaits the Whisper
\* request: the .mp3 is on disk, the downloaded file is not.
C38_Witness ==
    \E a \in DOMAIN attempts :
        /\ attempts[a].pc = "transcribing"
        /\ attempts[a].extension \in {".ogg", ".flac"}
        /\ attempts[a].compatible_path # attempts[a].audio_path
        /\ Val(attempts[a].compatible_path) \in DOMAIN disk
        /\ Val(attempts[a].audio_path) \notin DOMAIN disk

----------------------------------------------------------------------------
(* Properties of the notifier.                                             *)

BothConfigured(i) == notifier[i].slack # "off" /\ notifier[i].email # "off"

\* C12: with chat and email both configured, an invocation never raises,
\* and when it has returned both channels have been attempted, whether the
\* other one was sent or raised.
C12_ChannelsIsolated ==
    \A i \in DOMAIN notifier :
        BothConfigured(i) =>
            /\ notifier[i].pc # "raised"
            /\ notifier[i].pc = "returned" =>
                  /\ notifier[i].slack \in {"sent", "raised"}
                  /\ notifier[i].email \in {"sent", "raised"}

\* One invocation returned after chat raised and email was sent, another
\* after both raised.
C12_Witness ==
    \E i, j \in DOMAIN notifier :
        /\ notifier[i].pc = "returned"
        /\ notifier[i].slack = "raised" /\ notifier[i].email = "sent"
        /\ notifier[j].pc = "returned"
        /\ notifier[j].slack = "raised" /\ notifier[j].email = "raised"

\* Invocation i found neither chat nor email configured.
NoneConfigured(i) == notifier[i].slack = "off" /\ notifier[i].email = "off"

\* Run r has its analysis and all its action items in the tables.
Persisted(r) ==
    LET c == runs[r].call_id
    IN  /\ IsSet(summaries[c].summary)
        /\ IsSet(summaries[c].analysis_completed_at)
        /\ Len(runs[r].action_items) = Len(Val(runs[r].analysis).action_items)
        /\ \A k \in DOMAIN runs[r].action_items :
              /\ runs[r].action_items[k] \in DOMAIN action_items
              /\ action_items[runs[r].action_items[k]].call_id = c

C30_Step ==
    \A i \in DOMAIN notifier : NoneConfigured(i) => notifier'[i] = notifier[i]

\* C30: an invocation of the notifier that finds neither channel configured
\* has returned, normally, and never dispatches anything; the run that made
\* it does not fail: it is completed or about to be, with its summary and
\* action items persisted.
C30_NoChannelIsNoError ==
    /\ [](\A i \in DOMAIN notifier :
            NoneConfigured(i) =>
                /\ notifier[i].pc = "returned"
                /\ notifier[i].run \in DOMAIN runs
                /\ runs[notifier[i].run].pc \in {"notifying", "completed"}
                /\ Persisted(notifier[i].run))
    /\ [][C30_Step]_vars

\* A run with action items completed after its notifier found no channel.
C30_Witness ==
    \E i \in DOMAIN notifier :
        /\ NoneConfigured(i)
        /\ notifier[i].run \in DOMAIN runs
        /\ runs[notifier[i].run].pc = "completed"
        /\ Len(runs[notifier[i].run].action_items) = MaxItems

\* Invocation i was made by a run that had committed its analysis and all
\* its action items, and was handed exactly those items.
AfterEverythingCommitted(i) ==
    LET r == notifier[i].run
        c == runs[r].call_id
    IN  /\ IsSet(summaries[c].analysis_completed_at)
        /\ IsSet(runs[r].analysis)
        /\ Len(runs[r].action_items) = Len(Val(runs[r].analysis).action_items)
        /\ notifier[i].action_items = runs[r].action_items
        /\ \A k \in DOMAIN notifier[i].action_items :
              /\ notifier[i].action_items[k] \in DOMAIN action_items
              /\ action_items[notifier[i].action_items[k]].call_id = c
              /\ action_items[notifier[i].action_items[k]].description
                    = Val(runs[r].analysis).action_items[k].description

\* C35: a run invokes the notifier at most once, only after it has
\* committed analysis_completed_at and created all its action items, and
\* hands it exactly the items it created; a run that failed in download,
\* transcription, analysis or the creation of an item invokes it never.
C35_NotifiedAfterCommit ==
    /\ \A r \in DOMAIN runs :
          /\ Cardinality(InvocationsOf(r)) <= 1
          /\ runs[r].failed_stage \notin {"", "notification"} =>
                InvocationsOf(r) = {}
          /\ runs[r].pc \in {"scheduled", "transcribing", "analyzing"} =>
                InvocationsOf(r) = {}
    /\ \A i \in DOMAIN notifier :
          /\ notifier[i].run \in DOMAIN runs
          /\ AfterEverythingCommitted(i)

\* One run failed on its second action item and notified nobody; another
\* completed and its notifier was handed both items it created.
C35_Witness ==
    \E r, q \in DOMAIN runs : \E i \in DOMAIN notifier :
        /\ runs[r].pc = "failed" /\ runs[r].failed_stage = "action items"
        /\ Len(runs[r].action_items) = 1
        /\ InvocationsOf(r) = {}
        /\ runs[q].pc = "completed"
        /\ notifier[i].run = q
        /\ Len(notifier[i].action_items) = MaxItems

====
